---- MODULE Spec2Model ----
(***************************************************************************)
(* Sub-document command execution of the memcached daemon                  *)
(* (daemon/subdocument.cc, subdocument_context.h): the fetch / operate /   *)
(* update / respond loop of subdoc_executor, its CAS based auto-retry, its *)
(* EWOULDBLOCK suspension points and the items it checks out of the        *)
(* engine.  Several connections run commands against one document of one  *)
(* bucket; every engine call is one atomic step, so the calls of different *)
(* connections interleave freely.                                          *)
(***************************************************************************)
EXTENDS Integers, Sequences, FiniteSets, TLC

\* ------------------------------------------------------------- bounds
\* Commands the clients send in all.
MaxCmds == 2
\* EWOULDBLOCK returns the engine may give to one command.
MaxBlocks == 1
\* Writes the interfering writer of the retry specification may make.
MaxInterfere == 102
\* Documents another client may store under the key during a command.
MaxSets == 1

\* ---------------------------------------------------- program constants
MAXIMUM_ATTEMPTS == 100

Conns == {"c1", "c2"}
Paths == {"a", "b"}
Docs == SUBSET Paths

NULL == [null |-> TRUE]
NoCas == "none"
NoValue == <<>>

\* ------------------------------------------------------ opcode traits
LookupOps == {"SUBDOC_GET", "SUBDOC_EXISTS"}
MutatorOps == {"SUBDOC_DICT_ADD", "SUBDOC_DICT_UPSERT"}
Opcodes == LookupOps \cup MutatorOps

is_mutator(op) == op \in MutatorOps
response_has_value(op) == op = "SUBDOC_GET"

\* The requests a client may send: opcode, path, and whether it names a CAS.
AllRequests == [op : Opcodes, path : Paths, withcas : BOOLEAN]

\* ----------------------------------------------------- document payload
\* A payload is the JSON text itself or its snappy compression.
Plain(doc) == [enc |-> "plain", json |-> doc]
Snappy(doc) == [enc |-> "snappy", json |-> doc]

\* snappy_uncompressed_length / snappy_uncompress: fail on bytes that are no
\* snappy stream.
snappy_ok(payload) == payload.enc = "snappy"
snappy_uncompress(payload) == payload.json

Datatypes == {"JSON", "COMPRESSED_JSON", "RAW", "COMPRESSED", "UNKNOWN"}

\* The documents the bucket may hold when the model starts: well formed ones
\* of every datatype, and one tagged COMPRESSED_JSON whose bytes are not snappy.
InitialItems ==
    { [cas |-> 1, datatype |-> "JSON", value |-> Plain({}), flags |-> 7, exptime |-> 3, nvalue |-> 1],
      [cas |-> 1, datatype |-> "COMPRESSED_JSON", value |-> Snappy({"a"}), flags |-> 7, exptime |-> 3, nvalue |-> 1],
      [cas |-> 1, datatype |-> "COMPRESSED_JSON", value |-> Plain({"a"}), flags |-> 7, exptime |-> 3, nvalue |-> 1],
      [cas |-> 1, datatype |-> "RAW", value |-> Plain({"a"}), flags |-> 7, exptime |-> 3, nvalue |-> 1],
      [cas |-> 1, datatype |-> "COMPRESSED", value |-> Snappy({"a"}), flags |-> 7, exptime |-> 3, nvalue |-> 1],
      [cas |-> 1, datatype |-> "UNKNOWN", value |-> Plain({"a"}), flags |-> 7, exptime |-> 3, nvalue |-> 1] }

\* The same, and documents whose value the engine keeps in two iovecs.
FetchItems ==
    InitialItems \cup
        { [cas |-> 1, datatype |-> "JSON", value |-> Plain({"a"}), flags |-> 7,
           exptime |-> 3, nvalue |-> 2],
          [cas |-> 1, datatype |-> "RAW", value |-> Plain({"a"}), flags |-> 7,
           exptime |-> 3, nvalue |-> 2] }

\* ------------------------------------------------ JSON operation engine
\* Errors of the operation engine.  A path in FaultPaths stands for a path on
\* which the engine answers with the error of that name, whatever the
\* operation and the document.
SubdocErrors ==
    {"PATH_ENOENT", "PATH_MISMATCH", "DOC_ETOODEEP", "PATH_EINVAL", "DOC_EEXISTS",
     "PATH_E2BIG", "NUM_E2BIG", "DELTA_E2BIG", "VALUE_CANTINSERT", "VALUE_ETOODEEP",
     "GLOBAL_ENOSUPPORT"}
FaultPaths == SubdocErrors

\* Subdoc::Operation::op_exec on a dictionary document, seen as the set of
\* its top-level keys.
op_exec(op, doc, path) ==
    CASE path \in FaultPaths ->
            [err |-> path, newdoc |-> doc, matchloc |-> NoValue]
      [] op \in LookupOps ->
            IF path \in doc
            THEN [err |-> "SUCCESS", newdoc |-> doc, matchloc |-> <<"value", path>>]
            ELSE [err |-> "PATH_ENOENT", newdoc |-> doc, matchloc |-> NoValue]
      [] op = "SUBDOC_DICT_ADD" ->
            IF path \in doc
            THEN [err |-> "DOC_EEXISTS", newdoc |-> doc, matchloc |-> NoValue]
            ELSE [err |-> "SUCCESS", newdoc |-> doc \cup {path}, matchloc |-> NoValue]
      [] op = "SUBDOC_DICT_UPSERT" ->
            [err |-> "SUCCESS", newdoc |-> doc \cup {path}, matchloc |-> NoValue]

\* ------------------------------------------------------ status mapping
engine_error_2_protocol_error(e) ==
    CASE e = "ENGINE_SUCCESS" -> "SUCCESS"
      [] e = "ENGINE_KEY_ENOENT" -> "KEY_ENOENT"
      [] e = "ENGINE_KEY_EEXISTS" -> "KEY_EEXISTS"
      [] e = "ENGINE_ENOMEM" -> "ENOMEM"
      [] e = "ENGINE_TMPFAIL" -> "ETMPFAIL"
      [] OTHER -> "EINTERNAL"

\* Variant of subdoc_error_2_status: every error is an internal error.
subdoc_error_unmapped(err) == "EINTERNAL"

\* The switch of subdoc_operate on the result of op_exec.
subdoc_error_2_status(err) ==
    CASE err = "PATH_ENOENT" -> "SUBDOC_PATH_ENOENT"
      [] err = "PATH_MISMATCH" -> "SUBDOC_PATH_MISMATCH"
      [] err = "DOC_ETOODEEP" -> "SUBDOC_DOC_E2DEEP"
      [] err = "PATH_EINVAL" -> "SUBDOC_PATH_EINVAL"
      [] err = "DOC_EEXISTS" -> "SUBDOC_PATH_EEXISTS"
      [] err = "PATH_E2BIG" -> "SUBDOC_PATH_E2BIG"
      [] err = "NUM_E2BIG" -> "SUBDOC_NUM_ERANGE"
      [] err = "DELTA_E2BIG" -> "SUBDOC_DELTA_ERANGE"
      [] err = "VALUE_CANTINSERT" -> "SUBDOC_VALUE_CANTINSERT"
      [] err = "VALUE_ETOODEEP" -> "SUBDOC_VALUE_ETOODEEP"
      [] OTHER -> "EINTERNAL"

\* ------------------------------------------------- request validators
\* Bounds of the packets the validators are run on.
MaxSpecs == 18
MaxKeylen == 5

SUBDOC_PATH_MAX_LENGTH == 1024
PROTOCOL_BINARY_SUBDOC_MULTI_MAX_PATHS == 16
\* sizeof(uint16_t) + sizeof(uint8_t): pathlen and subdoc_flags.
SubdocExtrasLen == 3
\* sizeof(protocol_binary_subdoc_multi_lookup_spec): opcode, flags, pathlen.
SpecHeaderLen == 4

\* The bits a flags byte may carry, as the set of the bits that are set.
FlagBits == {"MKDIR_P", "0x02"}

\* A uint32_t, as its two 16-bit halves: x modulo 2^32.
uint32(x) == [hi |-> (x \div 65536) % 65536, lo |-> x % 65536]

\* cmd_traits<Cmd2Type<CMD>>: the validator is instantiated once per opcode;
\* every combination of the three traits it reads is an instantiation here.
CmdTraits ==
    [request_has_value : BOOLEAN, allow_empty_path : BOOLEAN,
     valid_flags : {{}, {"MKDIR_P"}}]

\* Variant of path_too_long: no upper limit on the path.
path_any_length(pathlen) == FALSE

\* pathlen > SUBDOC_PATH_MAX_LENGTH
path_too_long(pathlen) == pathlen > SUBDOC_PATH_MAX_LENGTH

\* subdoc_validator<CMD>: 0 accepts the packet, -1 rejects it.
subdoc_validator(p, traits) ==
    LET valuelen == uint32(p.bodylen - p.keylen - p.extlen - p.pathlen) IN
    IF \/ p.magic # "REQ"
       \/ p.keylen = 0
       \/ p.extlen # SubdocExtrasLen
       \/ path_too_long(p.pathlen)
       \/ p.datatype # "RAW"
    THEN -1
    ELSE IF traits.request_has_value /\ valuelen = uint32(0) THEN -1
    ELSE IF ~traits.request_has_value /\ valuelen # uint32(0) THEN -1
    ELSE IF p.subdoc_flags \ traits.valid_flags # {} THEN -1
    ELSE IF ~traits.allow_empty_path /\ p.pathlen = 0 THEN -1
    ELSE 0

\* The opcodes a lookup spec may carry: the two lookups and others.
SpecOpcodes ==
    {"SUBDOC_GET", "SUBDOC_EXISTS", "SUBDOC_DICT_ADD", "SUBDOC_COUNTER",
     "SUBDOC_MULTI_LOOKUP", "SUBDOC_MULTI_MUTATION", "GET"}

\* cmd_traits<Cmd2Type<SUBDOC_GET>>::valid_flags and the same of
\* SUBDOC_EXISTS: neither lookup accepts any flag.
lookup_valid_flags(opcode) == {}

\* req->header.request.bodylen < minimum_body_len, on the field as it is in
\* the packet, in network byte order: on a little-endian host the bytes of the
\* length are compared in reverse.
raw_bodylen_below(bodylen, minimum, little_endian) ==
    IF little_endian
    THEN bodylen % 16777216 = 0 /\ bodylen \div 16777216 < minimum
    ELSE bodylen < minimum

\* Variant of path_length_invalid: any path length is taken.
path_length_unchecked(pathlen) == FALSE

\* pathlen == 0 || pathlen > SUBDOC_PATH_MAX_LENGTH
path_length_invalid(pathlen) ==
    pathlen = 0 \/ pathlen > SUBDOC_PATH_MAX_LENGTH

\* Variant of check_spec: every spec is taken.
accept_any_spec(spec) == 0

\* Steps 2a and 2b of the loop body: 0 if the spec is valid, -1 if not.
check_spec(spec) ==
    IF \/ spec.opcode # "SUBDOC_GET" /\ spec.opcode # "SUBDOC_EXISTS"
       \/ path_length_invalid(spec.pathlen)
    THEN -1
    ELSE CASE spec.opcode = "SUBDOC_GET" ->
                IF spec.flags \ lookup_valid_flags("SUBDOC_GET") # {}
                THEN -1 ELSE 0
           [] spec.opcode = "SUBDOC_EXISTS" ->
                IF spec.flags \ lookup_valid_flags("SUBDOC_EXISTS") # {}
                THEN -1 ELSE 0
           [] OTHER -> -1

\* The spec at body_ptr + body_validated: the next one the client encoded if
\* its header lies within the declared body, else whatever bytes are there.
spec_at(p, path_index, body_validated) ==
    IF path_index < Len(p.specs) /\ body_validated + SpecHeaderLen <= p.bodylen
    THEN p.specs[path_index + 1]
    ELSE p.beyond

\* Variant of walk_valid: the number of specs walked is not looked at.
walk_valid_any_count(p, path_index, body_validated) ==
    body_validated = p.bodylen

\* Variant of walk_valid: the length walked is not compared with the body's.
walk_valid_any_length(p, path_index, body_validated) ==
    path_index > 0 /\ path_index <= PROTOCOL_BINARY_SUBDOC_MULTI_MAX_PATHS

\* The test after the loop.
walk_valid(p, path_index, body_validated) ==
    /\ path_index > 0
    /\ path_index <= PROTOCOL_BINARY_SUBDOC_MULTI_MAX_PATHS
    /\ body_validated = p.bodylen

\* The loop over the lookup specs and the test after it.
RECURSIVE walk_specs(_, _, _)
walk_specs(p, path_index, body_validated) ==
    IF /\ path_index < PROTOCOL_BINARY_SUBDOC_MULTI_MAX_PATHS
       /\ body_validated < p.bodylen
    THEN LET spec == spec_at(p, path_index, body_validated) IN
         IF check_spec(spec) # 0
         THEN -1
         ELSE walk_specs(p, path_index + 1,
                         body_validated + SpecHeaderLen + spec.pathlen)
    ELSE IF walk_valid(p, path_index, body_validated) THEN 0 ELSE -1

\* Variant of static_values_invalid: the header's fields are not looked at.
static_values_unchecked(p) == FALSE

\* Step 1 of subdoc_multi_lookup_validator: the simple static values.
static_values_invalid(p) ==
    LET minimum_body_len == SpecHeaderLen + 1 IN
    \/ p.magic # "REQ"
    \/ p.keylen = 0
    \/ p.extlen # 0
    \/ raw_bodylen_below(p.bodylen, minimum_body_len, p.little_endian)
    \/ p.datatype # "RAW"

\* subdoc_multi_lookup_validator: 0 accepts the packet, -1 rejects it.
subdoc_multi_lookup_validator(p) ==
    IF static_values_invalid(p)
    THEN -1
    ELSE walk_specs(p, 0, p.keylen)

\* No packet is before a validator.
NoPacket == [kind |-> "none"]

\* --------------------------------------------- multi-path coordinator
\* Bounds of the multi-path commands run.
MaxMultiSpecs == 3

\* No multi-path command is being executed.
NoMulti == [kind |-> "none"]

\* The status recorded for a spec: that of the operation engine's result.
subdoc_status(err) ==
    IF err = "SUCCESS" THEN "SUCCESS" ELSE subdoc_error_2_status(err)

\* Variant of overall_status: the overall status is that of the last spec.
overall_status_of_last(results) ==
    IF results[Len(results)].status # "SUCCESS"
    THEN "SUBDOC_MULTI_PATH_FAILURE" ELSE "SUCCESS"

\* Overall status of a multi-lookup.
overall_status(results) ==
    IF \E i \in 1..Len(results) : results[i].status # "SUCCESS"
    THEN "SUBDOC_MULTI_PATH_FAILURE" ELSE "SUCCESS"

\* Variant of abort_on_failure: a failing mutation is skipped.
skip_failure(m, status) == [m EXCEPT !.idx = @ + 1,
                                     !.pc = IF m.idx + 1 = Len(m.specs)
                                            THEN "store" ELSE "run"]

\* The first failing spec of a multi-mutation ends the command: the response
\* carries its index and status.
abort_on_failure(m, status) ==
    [m EXCEPT !.pc = "done",
              !.response = [status |-> status, index |-> m.idx, cas |-> 0]]

\* ------------------------------------------------------ bucket registry
\* Bounds of the bucket registry run.
MaxBuckets == 2

\* The longest bucket name.
MaxBucketNameLength == 100

NoBuckets == [kind |-> "none"]
NoIoctl == [kind |-> "none"]
NoTopKeys == [kind |-> "none"]
NoConfig == [kind |-> "none"]
\* The binding of a connection that has selected no bucket.
NoBucket == [len |-> 0, last |-> "none"]

\* Bytes of a name: one of each legal class, and bytes outside them.
LegalChars == {"a", "Z", "7", "_", "-", ".", "%"}
NameChars == LegalChars \cup {"/", " ", "$", "0x01", "0xff"}

\* A name is `len` bytes: 'a's up to the last byte, which is `last`.
BucketNames ==
    {[len |-> 0, last |-> "a"]}
      \cup {[len |-> n, last |-> "a"] : n \in {1, MaxBucketNameLength,
                                               MaxBucketNameLength + 1}}
      \cup {[len |-> 2, last |-> ch] : ch \in NameChars}

\* Variant of validate_bucket_name: a name of any length passes.
validate_bucket_name_any_length(name) == name.last \in LegalChars

\* A name is 1 to 100 bytes of letters, digits and "_-.%".
validate_bucket_name(name) ==
    /\ name.len >= 1
    /\ name.len <= MaxBucketNameLength
    /\ name.last \in LegalChars

\* The keys of the documents in a bucket.
BucketKeys == {"k"}

\* Variant of bucket_exists: no name is ever found in the registry.
bucket_exists_never(b, name) == FALSE

\* The registry holds a bucket of the name.
bucket_exists(b, name) == name \in DOMAIN b.buckets

\* Variant of signal_connections: deleting a bucket signals nobody.
signal_nobody(conns, name) == conns

\* Deleting a bucket signals every connection bound to it.
signal_connections(conns, name) ==
    [c \in DOMAIN conns |->
        IF conns[c].bucket = name /\ conns[c].wake = "none"
        THEN [conns[c] EXCEPT !.wake = "signal"] ELSE conns[c]]

\* Variant of unlock_for_wait: the deleting thread waits with the lock held.
wait_locked(lock) == lock

\* The deleting thread gives up the bucket's lock before it waits.
unlock_for_wait(lock) == "free"

\* Variant of getBucketEngine: every connection reaches the same engine.
getBucketEngine_shared(b, c) == CHOOSE name \in DOMAIN b.buckets : TRUE

\* The engine a connection's commands go to: that of the bucket it selected.
getBucketEngine(b, c) == b.conn[c].bucket

\* An engine's answer to an Add or a Get of the key in its documents.
engine_command(op, key, docs) ==
    CASE op = "add" /\ key \in docs -> [status |-> "KEY_EEXISTS", docs |-> docs]
      [] op = "add" -> [status |-> "SUCCESS", docs |-> docs \cup {key}]
      [] op = "get" /\ key \in docs -> [status |-> "SUCCESS", docs |-> docs]
      [] OTHER -> [status |-> "KEY_ENOENT", docs |-> docs]

\* --------------------------------------------------------------- ioctl
\* Bounds of the ioctl run.
MaxIoctls == 2
MaxKeyTokens == 2

\* Keys are strings of tokens, each standing for a run of bytes; the three
\* names the handlers know are two tokens each.
KeyTokens ==
    {"release_free_memor", "tcmalloc.aggressive_memory_decommi",
     "trace.connection", "y", "t", ".", "1"}
IoctlKeys == UNION {[1..n -> KeyTokens] : n \in 0..MaxKeyTokens}

ReleaseFreeMemory == <<"release_free_memor", "y">>
AggressiveDecommit == <<"tcmalloc.aggressive_memory_decommi", "t">>
TraceConnection == <<"trace.connection", ".">>

\* strncmp(a, b, n) == 0: the strings agree up to n bytes or their common end.
strncmp_eq(a, b, n) ==
    LET At(str, i) == IF i <= Len(str) THEN str[i] ELSE "NUL"
        shorter == IF Len(a) < Len(b) THEN Len(a) ELSE Len(b)
        m == IF n < shorter + 1 THEN n ELSE shorter + 1
    IN  \A i \in 1..m : At(a, i) = At(b, i)

\* Variant of get_key_matches: the length of the key is not compared.
get_key_matches_prefix(key) == strncmp_eq(AggressiveDecommit, key, Len(key))

\* ioctl_get_property's test of the key.
get_key_matches(key) ==
    /\ strncmp_eq(AggressiveDecommit, key, Len(key))
    /\ Len(key) = Len(AggressiveDecommit)

\* ioctl_get_property: the status, and whether *value was written.
ioctl_get_property(have_tcmalloc, key, hook_ok) ==
    IF have_tcmalloc /\ get_key_matches(key)
    THEN IF hook_ok THEN [ret |-> "ENGINE_SUCCESS", written |-> TRUE]
                    ELSE [ret |-> "ENGINE_EINVAL", written |-> FALSE]
    ELSE [ret |-> "ENGINE_EINVAL", written |-> FALSE]

\* request_key.find(prefix) == 0
starts_with(key, prefix) ==
    /\ Len(key) >= Len(prefix)
    /\ SubSeq(key, 1, Len(prefix)) = prefix

\* ioctl_set_property: the status and what the call did.
ioctl_set_property(have_tcmalloc, key, too_long, hook_ok) ==
    CASE key = ReleaseFreeMemory ->
            [ret |-> "ENGINE_SUCCESS", did |-> "release_free_memory"]
      [] key # ReleaseFreeMemory /\ have_tcmalloc /\ key = AggressiveDecommit ->
            IF too_long THEN [ret |-> "ENGINE_EINVAL", did |-> "nothing"]
            ELSE IF hook_ok
                 THEN [ret |-> "ENGINE_SUCCESS", did |-> "set_allocator_property"]
                 ELSE [ret |-> "ENGINE_EINVAL", did |-> "nothing"]
      [] key # ReleaseFreeMemory /\ ~(have_tcmalloc /\ key = AggressiveDecommit)
           /\ starts_with(key, TraceConnection) ->
            [ret |-> IF hook_ok THEN "ENGINE_SUCCESS" ELSE "ENGINE_EINVAL",
             did |-> "apply_connection_trace_mask"]
      [] OTHER -> [ret |-> "ENGINE_EINVAL", did |-> "nothing"]

\* ------------------------------------------------------------ top keys
\* Bounds of the top-keys run: keys kept per shard, updates made.
MaxTopKeys == 2
MaxUpdates == 4

NUM_SHARDS == 8

Threads == {"t1", "t2"}

\* The keys updated, named after the value std::hash gives them here.
TopKeyNames == {"k16", "k9", "k8", "k24"}
hash_fn(key) ==
    CASE key = "k16" -> 16 [] key = "k9" -> 9 [] key = "k8" -> 8 [] key = "k24" -> 24

\* TopKeys::getShard: shards[hash_fn(key) & 0x7]
getShard(key) == hash_fn(key) % NUM_SHARDS

\* Variant of mutex_free: the lock excludes nobody.
mutex_free_always(shard) == TRUE

\* std::lock_guard can take the shard's mutex.
mutex_free(shard) == shard.mutex = "free"

\* Shard::updateKey, a new key: hash.emplace, and list.back() is erased from
\* the hash and popped from the list when the hash is over max_keys.  An
\* existing key leaves both as they are.
shard_insert(shard, key, max_keys) ==
    IF key \notin DOMAIN shard.hash
    THEN LET over == Cardinality(DOMAIN shard.hash) + 1 > max_keys
                       /\ Len(shard.list) > 0
             victim == shard.list[Len(shard.list)]
             kept == IF over THEN DOMAIN shard.hash \ {victim}
                             ELSE DOMAIN shard.hash
             list == IF over THEN SubSeq(shard.list, 1, Len(shard.list) - 1)
                             ELSE shard.list
         IN  [shard EXCEPT !.hash = [k \in kept \cup {key} |->
                                       IF k = key THEN 0 ELSE shard.hash[k]],
                           !.list = list]
    ELSE shard

InList(list, key) == \E i \in 1..Len(list) : list[i] = key

\* Shard::updateKey, the list: a new key is pushed to the front, an existing
\* one is found and spliced to the front.  For a key of the hash that is not
\* in the list std::find returns list.end(), and splice(begin, list, end)
\* returns without relinking anything (its i + 1 is the position).
shard_touch(shard, key, is_new) ==
    IF is_new \/ InList(shard.list, key)
    THEN [shard EXCEPT !.list = <<key>> \o SelectSeq(@, LAMBDA k : k # key)]
    ELSE shard

\* The body of Shard::updateKey up to the count: emplace, evict the least
\* recently used key when the shard is over max_keys, move the key to the
\* head of the list.
shard_emplace(shard, key, max_keys) ==
    shard_touch(shard_insert(shard, key, max_keys), key,
                key \notin DOMAIN shard.hash)

\* Where std::bad_alloc may be thrown inside Shard::updateKey.
AllocFaults == {"none", "emplace", "push_front"}

\* ------------------------------------------------------------- state
VARIABLES
    store,      \* the document the engine holds for the key
    conn,       \* per connection: the Connection object and the executor's frame
    interf,     \* per connection: writes by others while it held a fetched item
    cmdBudget,  \* commands the clients may still send
    extBudget,  \* writes the interfering client may still make
    menu,       \* the requests clients send
    vld,        \* the request packet before a validator, and its verdict
    mp,         \* the multi-path command being executed
    bk,         \* the bucket registry and the connections' bindings
    io,         \* the ioctl surface: the last call and its effects
    tk,         \* the top-keys shards and the threads updating them
    cfg         \* the running settings and the last reload of the configuration

vars == <<store, conn, interf, cmdBudget, extBudget, menu, vld, mp, bk, io, tk, cfg>>

\* A Connection with no command: c->item and the command context are null.
IdleConn ==
    [pc |-> "idle", cmd |-> NULL, item |-> NULL, ctx |-> NULL,
     aiostat |-> "ENGINE_SUCCESS", ewouldblock |-> FALSE,
     ret |-> "ENGINE_SUCCESS", attempts |-> 0, cas |-> 0, responses |-> <<>>,
     refs |-> [get |-> 0, alloc |-> 0],
     h |-> [blocks |-> 0, gets |-> 0, ops |-> 0, allocs |-> 0, stores |-> 0,
            conflicts |-> 0, retries |-> 0, exhausted |-> FALSE,
            disconnects |-> 0, cmd_set |-> 0, get_hits |-> 0,
            topkeys |-> 0, inflated |-> 0]]


\* ----------------------------------------------------- storage engine
\* ENGINE_HANDLE_V1::get: a counted reference to the item stored now.
engine_get(st) == st

\* ENGINE_HANDLE_V1::allocate(key, nbytes, flags, exptime, datatype): a new
\* item, not yet linked, with no CAS.
engine_allocate(flags, exptime, datatype) ==
    [cas |-> 0, datatype |-> datatype, value |-> Plain({}), flags |-> flags,
     exptime |-> exptime, nvalue |-> 1]

\* ENGINE_HANDLE_V1::store with OPERATION_REPLACE: an item carrying a CAS
\* replaces the stored one only if the CASes agree; the stored item gets a
\* CAS never used before.
engine_store(it, st) ==
    IF it.cas # 0 /\ it.cas # st.cas
    THEN [ret |-> "ENGINE_KEY_EEXISTS", store |-> st, cas |-> 0]
    ELSE [ret |-> "ENGINE_SUCCESS", store |-> [it EXCEPT !.cas = st.cas + 1],
          cas |-> st.cas + 1]

GetResults ==
    {"ENGINE_SUCCESS", "ENGINE_EWOULDBLOCK", "ENGINE_DISCONNECT", "ENGINE_KEY_ENOENT"}
AllocResults ==
    {"ENGINE_SUCCESS", "ENGINE_EWOULDBLOCK", "ENGINE_DISCONNECT", "ENGINE_ENOMEM"}
\* What may keep a store from reaching its CAS check.
StoreFaults == {"none", "ENGINE_EWOULDBLOCK", "ENGINE_DISCONNECT", "ENGINE_ENOMEM"}
\* The status notify_io_complete hands to a parked command.
CompletionResults == {"ENGINE_SUCCESS", "ENGINE_TMPFAIL", "ENGINE_DISCONNECT"}

\* ------------------------------------------------------- connection
\* write_bin_packet: a response without value; the connection goes to send it.
write_bin_packet(k, status) ==
    [k EXCEPT !.responses = Append(@, [status |-> status, cas |-> NoCas,
                                       value |-> NoValue]),
              !.pc = "mwrite"]

\* Variant of on_disconnect: DISCONNECT is answered like any other error.
on_disconnect_answered(k) ==
    write_bin_packet([k EXCEPT !.h.disconnects = @ + 1], "EINTERNAL")

\* case ENGINE_DISCONNECT: c->setState(conn_closing)
on_disconnect(k) == [k EXCEPT !.pc = "closing", !.h.disconnects = @ + 1]

\* Variant of release_item: the pointer is dropped, the item not released.
release_item_leak(k) == [k EXCEPT !.item = NULL]

\* The engine's release of the item fetched for c->item.
release_item(k) ==
    IF k.item # NULL
    THEN [k EXCEPT !.refs.get = @ - 1, !.item = NULL]
    ELSE k

new_SubdocCmdContext ==
    [in_doc |-> NULL, in_cas |-> 0, result |-> NULL, out_doc |-> NULL]

\* ~SubdocCmdContext: the output item goes back to the engine.
SubdocCmdContext_dtor(k) ==
    IF k.ctx.out_doc # NULL
    THEN [k EXCEPT !.refs.alloc = @ - 1]
    ELSE k

\* Connection::resetCommandContext: destroy the context, if any.
resetCommandContext(k) ==
    IF k.ctx # NULL
    THEN [SubdocCmdContext_dtor(k) EXCEPT !.ctx = NULL]
    ELSE k

\* What the connection does before its next command and when it is torn down:
\* c->item is released and the command context is destroyed.
conn_cleanup(k) == resetCommandContext(release_item(k))

\* Variants of auto_retry: an executor that never retries, and one that
\* retries whatever CAS the client sent.
never_auto_retry(cmd) == FALSE
always_auto_retry(cmd) == TRUE

\* -------------------------------------------------------- executor
auto_retry(cmd) == cmd.cas = 0

keep_trying(k) == auto_retry(k.cmd) /\ k.attempts < MAXIMUM_ATTEMPTS

need_fetch(k) == k.item = NULL

\* Variant of need_operate: the operation is executed on every entry.
always_operate(k) == TRUE

need_operate(k) == k.ctx.in_doc = NULL

need_allocate(k) == k.ctx.out_doc = NULL

\* subdoc_fetch; r is what the engine answers if get is called.
subdoc_fetch(k, st, r) ==
    IF need_fetch(k)
    THEN LET ret == IF k.ret = "ENGINE_SUCCESS" THEN r ELSE k.ret IN
         CASE ret = "ENGINE_SUCCESS" ->
                IF k.ctx # NULL
                THEN [k EXCEPT !.pc = "abort"]
                ELSE [k EXCEPT !.item = engine_get(st),
                               !.ctx = new_SubdocCmdContext,
                               !.refs.get = @ + 1,
                               !.h.gets = @ + 1,
                               !.pc = "operate"]
           [] ret = "ENGINE_EWOULDBLOCK" ->
                [k EXCEPT !.ewouldblock = TRUE, !.h.blocks = @ + 1, !.pc = "blocked"]
           [] ret = "ENGINE_DISCONNECT" -> on_disconnect(k)
           [] OTHER -> write_bin_packet(k, engine_error_2_protocol_error(ret))
    ELSE [k EXCEPT !.pc = "operate"]

\* Variant of single_iovec: the number of iovecs is not looked at.
any_iovec(it) == TRUE

\* info.info.nvalue == 1: the complete document is in a single iovec.
single_iovec(it) == it.nvalue = 1

\* Variant of cas_mismatch: the client's CAS is not compared.
cas_unchecked(in_cas, it) == FALSE

\* (in_cas != 0) && in_cas != info.info.cas
cas_mismatch(in_cas, it) == in_cas # 0 /\ in_cas # it.cas

\* get_document_for_searching on the item info of `it`; grow_ok is whether the
\* dynamic buffer can grow.
get_document_for_searching(it, in_cas, grow_ok) ==
    LET fail(s) == [status |-> s, doc |-> {}, cas |-> 0, inflated |-> FALSE] IN
    IF ~single_iovec(it)
    THEN fail("EINTERNAL")
    ELSE IF cas_mismatch(in_cas, it)
    THEN fail("KEY_EEXISTS")
    ELSE CASE it.datatype = "JSON" ->
                [status |-> "SUCCESS", doc |-> it.value.json, cas |-> it.cas,
                 inflated |-> FALSE]
           [] it.datatype = "COMPRESSED_JSON" ->
                IF ~snappy_ok(it.value) THEN fail("EINTERNAL")
                ELSE IF ~grow_ok THEN fail("E2BIG")
                ELSE [status |-> "SUCCESS", doc |-> snappy_uncompress(it.value),
                      cas |-> it.cas, inflated |-> TRUE]
           [] it.datatype \in {"RAW", "COMPRESSED"} -> fail("SUBDOC_DOC_NOTJSON")
           [] OTHER -> fail("EINTERNAL")

\* subdoc_operate
subdoc_operate(k, grow_ok) ==
    IF k.ctx = NULL
    THEN [k EXCEPT !.pc = "abort"]
    ELSE IF need_operate(k)
    THEN LET d == get_document_for_searching(k.item, k.cmd.cas, grow_ok)
             k1 == [k EXCEPT !.h.inflated = @ + (IF d.inflated THEN 1 ELSE 0)]
         IN  IF d.status # "SUCCESS"
             THEN write_bin_packet(k1, d.status)
             ELSE LET res == op_exec(k.cmd.op, d.doc, k.cmd.path) IN
                  IF res.err = "SUCCESS"
                  THEN [k1 EXCEPT !.ctx.in_doc = [buf |-> d.doc],
                                  !.ctx.in_cas = d.cas,
                                  !.ctx.result = res,
                                  !.h.ops = @ + 1,
                                  !.pc = "update"]
                  ELSE write_bin_packet(k1, subdoc_error_2_status(res.err))
    ELSE [k EXCEPT !.pc = "update"]


\* Variant of allocated_item: the new item is allocated as raw bytes.
allocated_item_raw == engine_allocate(0, 0, "RAW")

\* The item subdoc_update allocates: flags 0, expiry 0, datatype JSON.
allocated_item == engine_allocate(0, 0, "JSON")

\* Variant of out_doc_cas: the new item is given no CAS, so that the store
\* is unconditional.
out_doc_cas_zero(ctx) == 0

\* item_set_cas(new_doc, context->in_cas)
out_doc_cas(ctx) == ctx.in_cas

\* Variant of out_doc_value: the input document is copied, not the result.
out_doc_value_unchanged(ctx) == Plain(ctx.in_doc.buf)

\* The memcpy of the newdoc fragments into the new item.
out_doc_value(ctx) == Plain(ctx.result.newdoc)

\* Variant of lookup_cas: a lookup reports no CAS.
lookup_cas_zero(ctx) == 0

\* c->setCAS(context->in_cas) for a lookup.
lookup_cas(ctx) == ctx.in_cas

\* Variant of stored_cas: the response keeps the CAS seen at the fetch.
stored_cas_stale(new_cas, ctx) == ctx.in_cas

\* c->setCAS(new_cas) after a successful store.
stored_cas(new_cas, ctx) == new_cas

\* A return of subdoc_update to the executor.
Returned(k, ret) == [k |-> k, ret |-> ret, returned |-> TRUE]
Continuing(k) == [k |-> k, ret |-> k.ret, returned |-> FALSE]

\* subdoc_update up to the store: r is what the engine answers if allocate
\* is called, info_ok whether get_item_info of the new item succeeds.
subdoc_update_allocate(k, r, info_ok) ==
    IF k.ctx = NULL
    THEN Returned([k EXCEPT !.pc = "abort"], "ENGINE_FAILED")
    ELSE IF ~is_mutator(k.cmd.op)
    THEN Returned([k EXCEPT !.cas = lookup_cas(k.ctx)], "ENGINE_SUCCESS")
    ELSE IF need_allocate(k)
    THEN LET ret == IF k.ret = "ENGINE_SUCCESS" THEN r ELSE k.ret IN
         CASE ret = "ENGINE_SUCCESS" ->
                LET k1 == [k EXCEPT !.ctx.out_doc =
                                        [allocated_item EXCEPT !.cas = out_doc_cas(k.ctx)],
                                    !.refs.alloc = @ + 1,
                                    !.h.allocs = @ + 1]
                IN  IF ~info_ok
                    THEN Returned(write_bin_packet(k1, "EINTERNAL"), "ENGINE_FAILED")
                    ELSE Continuing([k1 EXCEPT !.ctx.out_doc.value = out_doc_value(k.ctx),
                                               !.pc = "store"])
           [] ret = "ENGINE_EWOULDBLOCK" ->
                Returned([k EXCEPT !.ewouldblock = TRUE, !.h.blocks = @ + 1,
                                   !.pc = "blocked"], ret)
           [] ret = "ENGINE_DISCONNECT" -> Returned(on_disconnect(k), ret)
           [] OTHER ->
                Returned(write_bin_packet(k, engine_error_2_protocol_error(ret)), ret)
    ELSE Continuing([k EXCEPT !.pc = "store"])

\* The rest of subdoc_update: the store and the switch on its result. `fault`
\* is what keeps the engine from its CAS check, if anything does.
subdoc_update_store(k, st, fault) ==
    LET res == IF fault = "none" THEN engine_store(k.ctx.out_doc, st)
               ELSE [ret |-> fault, store |-> st, cas |-> 0]
        ret == res.ret
        k1 == IF ret = "ENGINE_EWOULDBLOCK" THEN k ELSE [k EXCEPT !.h.stores = @ + 1]
    IN  CASE ret = "ENGINE_SUCCESS" ->
               [k |-> [k1 EXCEPT !.cas = stored_cas(res.cas, k.ctx)], ret |-> ret,
                store |-> res.store]
          [] ret = "ENGINE_KEY_EEXISTS" ->
               [k |-> [k1 EXCEPT !.h.conflicts = @ + 1], ret |-> ret, store |-> res.store]
          [] ret = "ENGINE_EWOULDBLOCK" ->
               [k |-> [k1 EXCEPT !.ewouldblock = TRUE, !.h.blocks = @ + 1,
                                 !.pc = "blocked"],
                ret |-> ret, store |-> res.store]
          [] ret = "ENGINE_DISCONNECT" ->
               [k |-> on_disconnect(k1), ret |-> ret, store |-> res.store]
          [] OTHER ->
               [k |-> write_bin_packet(k1, engine_error_2_protocol_error(ret)),
                ret |-> ret, store |-> res.store]

\* SLAB_INCR(cmd_set) / STATS_HIT(get) and update_topkeys.
update_stats(k) ==
    IF is_mutator(k.cmd.op)
    THEN [k EXCEPT !.h.cmd_set = @ + 1, !.h.topkeys = @ + 1]
    ELSE [k EXCEPT !.h.get_hits = @ + 1, !.h.topkeys = @ + 1]

\* Variant of subdoc_response: the matched bytes are sent whatever the opcode.
subdoc_response_always_value(k, hdr_ok) ==
    IF k.ctx = NULL
    THEN [k EXCEPT !.pc = "abort"]
    ELSE IF ~hdr_ok
    THEN [k EXCEPT !.pc = "closing"]
    ELSE [k EXCEPT !.responses =
                      Append(@, [status |-> "SUCCESS", cas |-> k.cas,
                                 value |-> k.ctx.result.matchloc]),
                   !.pc = "mwrite"]

\* subdoc_response; hdr_ok is whether add_bin_header finds room.
subdoc_response(k, hdr_ok) ==
    IF k.ctx = NULL
    THEN [k EXCEPT !.pc = "abort"]
    ELSE IF ~hdr_ok
    THEN [k EXCEPT !.pc = "closing"]
    ELSE [k EXCEPT !.responses =
                      Append(@, [status |-> "SUCCESS", cas |-> k.cas,
                                 value |-> IF response_has_value(k.cmd.op)
                                           THEN k.ctx.result.matchloc
                                           ELSE NoValue]),
                   !.pc = "mwrite"]

\* Variant of retry_reset: c->item is released but the command context of the
\* failed attempt is kept.
retry_keeps_context(k) ==
    release_item([k EXCEPT !.ret = "ENGINE_SUCCESS", !.h.retries = @ + 1])

\* The retry branch of subdoc_executor: c->item goes back to the engine and
\* the command context is reset.
retry_reset(k) ==
    resetCommandContext(release_item([k EXCEPT !.ret = "ENGINE_SUCCESS",
                                               !.h.retries = @ + 1]))

\* Variant of executor_after_update: the statistics are counted as soon as
\* subdoc_update returns, whatever it returned.
executor_counts_every_attempt(k0, ret, hdr_ok) ==
    LET k == update_stats([k0 EXCEPT !.ret = ret]) IN
    IF ret = "ENGINE_KEY_EEXISTS"
    THEN IF auto_retry(k.cmd)
         THEN LET k1 == retry_reset(k) IN
              IF keep_trying(k1)
              THEN [k1 EXCEPT !.pc = "fetch"]
              ELSE write_bin_packet([k1 EXCEPT !.h.exhausted = TRUE],
                                    engine_error_2_protocol_error("ENGINE_TMPFAIL"))
         ELSE write_bin_packet(k, engine_error_2_protocol_error(ret))
    ELSE IF ret # "ENGINE_SUCCESS"
    THEN k
    ELSE subdoc_response(k, hdr_ok)

\* subdoc_executor after subdoc_update returned ret: the retry decision, the
\* loop condition, the statistics and the response.
executor_after_update(k0, ret, hdr_ok) ==
    LET k == [k0 EXCEPT !.ret = ret] IN
    IF ret = "ENGINE_KEY_EEXISTS"
    THEN IF auto_retry(k.cmd)
         THEN LET k1 == retry_reset(k) IN
              IF keep_trying(k1)
              THEN [k1 EXCEPT !.pc = "fetch"]
              ELSE write_bin_packet([k1 EXCEPT !.h.exhausted = TRUE],
                                    engine_error_2_protocol_error("ENGINE_TMPFAIL"))
         ELSE write_bin_packet(k, engine_error_2_protocol_error(ret))
    ELSE IF ret # "ENGINE_SUCCESS"
    THEN k
    ELSE subdoc_response(update_stats(k), hdr_ok)

\* Entry of subdoc_executor: ret takes the aiostat, the attempts start at 0.
executor_entry(k) ==
    [k EXCEPT !.ret = k.aiostat, !.aiostat = "ENGINE_SUCCESS", !.attempts = 0]

\* The executor's return: its locals ret and attempts are gone.  They live on
\* only while the model is inside the executor (before its store, or at the
\* head of its loop).  A command that is over will not be parked again, and a
\* connection that closes drops its request.
leave_frame(k) ==
    CASE k.pc \in {"store", "fetch"} -> k
      [] k.pc = "blocked" -> [k EXCEPT !.ret = "ENGINE_SUCCESS", !.attempts = 0]
      [] k.pc = "closing" ->
            [k EXCEPT !.ret = "ENGINE_SUCCESS", !.attempts = 0, !.h.blocks = 0,
                      !.cmd = NULL]
      [] OTHER -> [k EXCEPT !.ret = "ENGINE_SUCCESS", !.attempts = 0, !.h.blocks = 0]

\* ----------------------------------------------- what the engine answers
BlockOk(k, S) == {r \in S : r = "ENGINE_EWOULDBLOCK" => k.h.blocks < MaxBlocks}

GetChoices(k) ==
    IF need_fetch(k) /\ k.ret = "ENGINE_SUCCESS"
    THEN BlockOk(k, GetResults) ELSE {"ENGINE_SUCCESS"}

GrowChoices(k) ==
    IF need_operate(k) /\ k.item.datatype = "COMPRESSED_JSON"
    THEN BOOLEAN ELSE {TRUE}

AllocChoices(k) ==
    IF is_mutator(k.cmd.op) /\ need_allocate(k) /\ k.ret = "ENGINE_SUCCESS"
    THEN BlockOk(k, AllocResults) ELSE {"ENGINE_SUCCESS"}

InfoChoices(k) ==
    IF is_mutator(k.cmd.op) /\ need_allocate(k) THEN BOOLEAN ELSE {TRUE}

HdrChoices(k) == IF is_mutator(k.cmd.op) THEN {TRUE} ELSE BOOLEAN

\* ------------------------------------------------------------ actions
\* A validated request reaches its executor for the first time.
Start(c) ==
    /\ conn[c].pc = "idle"
    /\ cmdBudget > 0
    /\ \E q \in menu :
          conn' = [conn EXCEPT ![c] =
                     [IdleConn EXCEPT !.pc = "execute",
                                      !.cmd = [op |-> q.op, path |-> q.path,
                                               cas |-> IF q.withcas THEN store.cas ELSE 0],
                                      !.refs = conn[c].refs]]
    /\ cmdBudget' = cmdBudget - 1
    /\ interf' = [interf EXCEPT ![c] = 0]
    /\ UNCHANGED <<store, extBudget, menu, vld, mp, bk, io, tk, cfg>>

\* subdoc_executor from the head of its loop to its store or its return:
\* subdoc_fetch, subdoc_operate and subdoc_update up to the store.  The
\* engine's get is the one access to the shared document in it.
RunFrom(c, k0) ==
    LET ka == [k0 EXCEPT !.attempts = @ + 1] IN
    \E r \in GetChoices(ka) :
      LET k1 == subdoc_fetch(ka, store, r) IN
      IF k1.pc # "operate"
      THEN conn' = [conn EXCEPT ![c] = leave_frame(k1)]
      ELSE \E grow_ok \in GrowChoices(k1) :
             LET k2 == subdoc_operate(k1, grow_ok) IN
             IF k2.pc # "update"
             THEN conn' = [conn EXCEPT ![c] = leave_frame(k2)]
             ELSE \E r2 \in AllocChoices(k2), info_ok \in InfoChoices(k2),
                     hdr_ok \in HdrChoices(k2) :
                    LET u == subdoc_update_allocate(k2, r2, info_ok) IN
                    conn' = [conn EXCEPT ![c] =
                               IF u.returned
                               THEN leave_frame(executor_after_update(u.k, u.ret, hdr_ok))
                               ELSE u.k]

\* The executor is called with a new request.
Execute(c) ==
    /\ conn[c].pc = "execute"
    /\ RunFrom(c, executor_entry(conn[c]))
    /\ UNCHANGED <<store, interf, cmdBudget, extBudget, menu, vld, mp, bk, io, tk, cfg>>

\* The next round of the executor's loop after a retry.
Retry(c) ==
    /\ conn[c].pc = "fetch"
    /\ RunFrom(c, conn[c])
    /\ UNCHANGED <<store, interf, cmdBudget, extBudget, menu, vld, mp, bk, io, tk, cfg>>

\* notify_io_complete(cookie, status) for a parked command: the aiostat is
\* set and the executor is called again with the same request.
notify_io_complete(k, status) ==
    [k EXCEPT !.aiostat = status, !.ewouldblock = FALSE, !.pc = "execute"]

Resume(c) ==
    /\ conn[c].pc = "blocked"
    /\ \E status \in CompletionResults :
          RunFrom(c, executor_entry(notify_io_complete(conn[c], status)))
    /\ UNCHANGED <<store, interf, cmdBudget, extBudget, menu, vld, mp, bk, io, tk, cfg>>

\* A connection that holds a fetched item and has not finished its store.
InWindow(k) == k.item # NULL /\ k.pc \in {"store", "blocked"}

\* The store of subdoc_update and the executor's handling of its result.
Store(c) ==
    /\ conn[c].pc = "store"
    /\ \E fault \in BlockOk(conn[c], StoreFaults) :
          LET u == subdoc_update_store(conn[c], store, fault) IN
          /\ conn' = [conn EXCEPT ![c] =
                        leave_frame(executor_after_update(u.k, u.ret, TRUE))]
          /\ store' = u.store
          /\ interf' = [d \in Conns |->
                          IF u.store # store /\ d # c /\ InWindow(conn[d])
                          THEN interf[d] + 1 ELSE interf[d]]
    /\ UNCHANGED <<cmdBudget, extBudget, menu, vld, mp, bk, io, tk, cfg>>

\* The same with add_bin_header finding no room for the response.
StoreNoRoom(c) ==
    /\ conn[c].pc = "store"
    /\ LET u == subdoc_update_store(conn[c], store, "none") IN
       /\ u.ret = "ENGINE_SUCCESS"
       /\ conn' = [conn EXCEPT ![c] =
                     leave_frame(executor_after_update(u.k, u.ret, FALSE))]
       /\ store' = u.store
       /\ interf' = [d \in Conns |->
                       IF d # c /\ InWindow(conn[d]) THEN interf[d] + 1 ELSE interf[d]]
    /\ UNCHANGED <<cmdBudget, extBudget, menu, vld, mp, bk, io, tk, cfg>>

\* The response is sent and the connection prepares for its next command.
FinishCommand(c) ==
    /\ conn[c].pc = "mwrite"
    /\ conn' = [conn EXCEPT ![c] =
                  [IdleConn EXCEPT !.refs = conn_cleanup(conn[c]).refs]]
    /\ UNCHANGED <<store, interf, cmdBudget, extBudget, menu, vld, mp, bk, io, tk, cfg>>

\* conn_closing: the connection is torn down.
CloseConnection(c) ==
    /\ conn[c].pc = "closing"
    /\ conn' = [conn EXCEPT ![c] =
                  [IdleConn EXCEPT !.refs = conn_cleanup(conn[c]).refs,
                                   !.pc = "closed"]]
    /\ UNCHANGED <<store, interf, cmdBudget, extBudget, menu, vld, mp, bk, io, tk, cfg>>

\* A client outside the model rewrites the document under a command that has
\* fetched it and not yet stored.
InterferingWrite ==
    /\ extBudget > 0
    /\ \E c \in Conns : InWindow(conn[c]) /\ conn[c].item.cas = store.cas
    /\ store' = [store EXCEPT !.cas = @ + 1]
    /\ extBudget' = extBudget - 1
    /\ interf' = [d \in Conns |-> IF InWindow(conn[d]) THEN interf[d] + 1 ELSE interf[d]]
    /\ UNCHANGED <<conn, cmdBudget, menu, vld, mp, bk, io, tk, cfg>>

Next ==
    \/ \E c \in Conns : Start(c)
    \/ \E c \in Conns : Execute(c)
    \/ \E c \in Conns : Retry(c)
    \/ \E c \in Conns : Resume(c)
    \/ \E c \in Conns : Store(c)
    \/ \E c \in Conns : StoreNoRoom(c)
    \/ \E c \in Conns : FinishCommand(c)
    \/ \E c \in Conns : CloseConnection(c)

\* Two connections, any request, any initial document.
Init ==
    /\ store \in InitialItems
    /\ conn = [c \in Conns |-> IdleConn]
    /\ interf = [c \in Conns |-> 0]
    /\ cmdBudget = MaxCmds
    /\ extBudget = 0
    /\ menu = AllRequests
    /\ vld = NoPacket
    /\ mp = NoMulti
    /\ bk = NoBuckets
    /\ io = NoIoctl
    /\ tk = NoTopKeys
    /\ cfg = NoConfig

Spec == Init /\ [][Next]_vars

\* One auto-retry DICT_UPSERT while another client keeps rewriting the
\* document between its fetch and its store.
InitRetry ==
    /\ store = [cas |-> 1, datatype |-> "JSON", value |-> Plain({}),
                flags |-> 7, exptime |-> 3, nvalue |-> 1]
    /\ conn = [c \in Conns |-> IdleConn]
    /\ interf = [c \in Conns |-> 0]
    /\ cmdBudget = 1
    /\ extBudget = MaxInterfere
    /\ menu = {[op |-> "SUBDOC_DICT_UPSERT", path |-> "b", withcas |-> FALSE]}
    /\ vld = NoPacket
    /\ mp = NoMulti
    /\ bk = NoBuckets
    /\ io = NoIoctl
    /\ tk = NoTopKeys
    /\ cfg = NoConfig

NextRetry == Next \/ InterferingWrite

SpecRetry == InitRetry /\ [][NextRetry]_vars


\* Another client stores a document of its own under the key: any datatype,
\* a new CAS.
ExternalSet ==
    /\ extBudget > 0
    /\ \E it \in FetchItems : store' = [it EXCEPT !.cas = store.cas + 1]
    /\ extBudget' = extBudget - 1
    /\ interf' = [d \in Conns |-> IF InWindow(conn[d]) THEN interf[d] + 1 ELSE interf[d]]
    /\ UNCHANGED <<conn, cmdBudget, menu, vld, mp, bk, io, tk, cfg>>

\* Requests on every kind of path, those the operation engine refuses included.
FetchRequests == [op : Opcodes, path : Paths \cup FaultPaths, withcas : BOOLEAN]

\* One command on any kind of stored item, while another client may replace
\* the item.
InitFetch ==
    /\ store \in FetchItems
    /\ conn = [c \in Conns |-> IdleConn]
    /\ interf = [c \in Conns |-> 0]
    /\ cmdBudget = 1
    /\ extBudget = MaxSets
    /\ menu = FetchRequests
    /\ vld = NoPacket
    /\ mp = NoMulti
    /\ bk = NoBuckets
    /\ io = NoIoctl
    /\ tk = NoTopKeys
    /\ cfg = NoConfig

NextFetch == Next \/ ExternalSet

SpecFetch == InitFetch /\ [][NextFetch]_vars

\* The single-path request packets: header fields and extras as the client
\* sent them, the body length declared as the sum of key, extras and path plus
\* or minus a few bytes.
SinglePackets ==
    { [magic |-> m, keylen |-> k, extlen |-> e, datatype |-> d, pathlen |-> pl,
       subdoc_flags |-> f, bodylen |-> k + e + pl + v] :
        m \in {"REQ", "RES"}, k \in {0, 1}, e \in {0, SubdocExtrasLen, 7},
        d \in {"RAW", "JSON"},
        pl \in {0, 1, SUBDOC_PATH_MAX_LENGTH, SUBDOC_PATH_MAX_LENGTH + 1},
        f \in SUBSET FlagBits, v \in {-1, 0, 1} }

LookupSpec(op, f, pl) == [opcode |-> op, flags |-> f, pathlen |-> pl]

\* Specs a well-formed request is made of.
GoodSpecs ==
    {LookupSpec("SUBDOC_EXISTS", {}, 3), LookupSpec("SUBDOC_GET", {}, 1)}

\* The spec that may differ from the others of its request: any opcode, a
\* flag, a path of no, 1024 or 1025 bytes.
OddSpecs ==
    {LookupSpec(op, {}, 3) : op \in SpecOpcodes}
    \cup {LookupSpec(op, {"MKDIR_P"}, 3) : op \in {"SUBDOC_GET", "SUBDOC_EXISTS"}}
    \cup {LookupSpec("SUBDOC_GET", {}, pl) :
            pl \in {0, 1, SUBDOC_PATH_MAX_LENGTH, SUBDOC_PATH_MAX_LENGTH + 1}}

\* The spec lists clients encode: up to MaxSpecs specs, alike but for the
\* first or the last.
SpecLists ==
    UNION { { [i \in 1..n |-> IF i = pos THEN odd ELSE base] :
                pos \in {1, n}, base \in GoodSpecs, odd \in OddSpecs } :
            n \in 0..MaxSpecs }

\* Header fields of multi-lookup packets: well-formed ones and ones with one
\* field wrong, read on hosts of either byte order.
MultiHeaders ==
    { [magic |-> h[1], keylen |-> h[2], extlen |-> h[3], datatype |-> h[4],
       little_endian |-> le] :
        h \in { <<"REQ", 1, 0, "RAW">>, <<"REQ", MaxKeylen, 0, "RAW">>,
                <<"RES", 1, 0, "RAW">>, <<"REQ", 0, 0, "RAW">>,
                <<"REQ", 1, 1, "RAW">>, <<"REQ", 1, 0, "JSON">> },
        le \in BOOLEAN }

\* The bytes the first n specs of a list take in the body.
RECURSIVE SpecsLenTo(_, _)
SpecsLenTo(specs, n) ==
    IF n = 0 THEN 0
    ELSE SpecHeaderLen + specs[n].pathlen + SpecsLenTo(specs, n - 1)

SpecsLen(specs) == SpecsLenTo(specs, Len(specs))

\* What the bytes after the last encoded spec may read as.
BeyondSpecs == {LookupSpec("SUBDOC_GET", {}, 1), LookupSpec("GET", {}, 0)}

\* The body lengths a packet may declare: that of key and specs, a few bytes
\* less or more, or 2^24.
BodyLens(h, specs) ==
    {n \in {h.keylen + SpecsLen(specs) + v : v \in {-6, -5, -1, 0, 1, 5}} :
        n >= 0} \cup {16777216}

\* A multi-lookup packet.
MultiPacket(h, specs, beyond, bodylen) ==
    [magic |-> h.magic, keylen |-> h.keylen, extlen |-> h.extlen,
     datatype |-> h.datatype, little_endian |-> h.little_endian,
     specs |-> specs, beyond |-> beyond, bodylen |-> bodylen]

InitValidator ==
    /\ store \in {it \in InitialItems : it.datatype = "JSON"}
    /\ conn = [c \in Conns |-> IdleConn]
    /\ interf = [c \in Conns |-> 0]
    /\ cmdBudget = 0
    /\ extBudget = 0
    /\ menu = {}
    /\ \/ \E p \in SinglePackets, t \in CmdTraits :
             /\ p.bodylen >= 0
             /\ vld = [kind |-> "single", p |-> p, traits |-> t,
                       done |-> FALSE, ret |-> 0]
       \/ \E h \in MultiHeaders, l \in SpecLists, b \in BeyondSpecs :
             \E n \in BodyLens(h, l) :
                vld = [kind |-> "multi", p |-> MultiPacket(h, l, b, n),
                       done |-> FALSE, ret |-> 0]
    /\ mp = NoMulti
    /\ bk = NoBuckets
    /\ io = NoIoctl
    /\ tk = NoTopKeys
    /\ cfg = NoConfig

\* The dispatcher runs the opcode's validator on the packet it has read.
SingleValidate ==
    /\ vld.kind = "single" /\ ~vld.done
    /\ vld' = [vld EXCEPT !.done = TRUE,
                          !.ret = subdoc_validator(vld.p, vld.traits)]
    /\ UNCHANGED <<store, conn, interf, cmdBudget, extBudget, menu, mp, bk, io, tk, cfg>>

MultiValidate ==
    /\ vld.kind = "multi" /\ ~vld.done
    /\ vld' = [vld EXCEPT !.done = TRUE,
                          !.ret = subdoc_multi_lookup_validator(vld.p)]
    /\ UNCHANGED <<store, conn, interf, cmdBudget, extBudget, menu, mp, bk, io, tk, cfg>>

NextValidator == SingleValidate \/ MultiValidate

SpecValidator == InitValidator /\ [][NextValidator]_vars

\* The multi-path commands clients send: 1 to MaxMultiSpecs lookups, or as
\* many mutations, with the CAS of the stored document or none.
MultiSpecs(ops) ==
    UNION { [1..n -> [op : ops, path : Paths \cup {"PATH_MISMATCH"}]] :
            n \in 1..MaxMultiSpecs }

MultiCommand(kind, specs, withcas) ==
    [kind |-> kind, specs |-> specs, withcas |-> withcas, pc |-> "fetch",
     in_doc |-> {}, in_cas |-> 0, doc |-> {}, idx |-> 0, results |-> <<>>,
     applied |-> <<>>, attempts |-> 0, stores |-> 0, response |-> NULL]

InitMulti ==
    /\ store \in {[cas |-> 1, datatype |-> "JSON", value |-> Plain(d),
                   flags |-> 7, exptime |-> 3, nvalue |-> 1] : d \in Docs}
    /\ conn = [c \in Conns |-> IdleConn]
    /\ interf = [c \in Conns |-> 0]
    /\ cmdBudget = 0
    /\ extBudget = MaxSets
    /\ menu = {}
    /\ vld = NoPacket
    /\ \/ \E specs \in MultiSpecs(LookupOps), w \in BOOLEAN :
             mp = MultiCommand("lookup", specs, w)
       \/ \E specs \in MultiSpecs(MutatorOps), w \in BOOLEAN :
             mp = MultiCommand("mutation", specs, w)
    /\ bk = NoBuckets
    /\ io = NoIoctl
    /\ tk = NoTopKeys
    /\ cfg = NoConfig

\* The document is fetched and materialized once for all specs.
MultiFetch ==
    /\ mp.kind # "none" /\ mp.pc = "fetch"
    /\ LET in_cas == IF mp.withcas THEN 1 ELSE 0
           d == get_document_for_searching(engine_get(store), in_cas, TRUE)
       IN  mp' = IF d.status # "SUCCESS"
                 THEN [mp EXCEPT !.pc = "done",
                                 !.response = [status |-> d.status,
                                               index |-> 0, cas |-> 0]]
                 ELSE [mp EXCEPT !.pc = "run", !.in_doc = d.doc,
                                 !.in_cas = d.cas, !.doc = d.doc, !.idx = 0,
                                 !.results = <<>>, !.applied = <<>>,
                                 !.attempts = @ + 1]
    /\ UNCHANGED <<store, conn, interf, cmdBudget, extBudget, menu, vld, bk, io, tk, cfg>>

\* Multi-lookup: the next spec is executed against the fetched document and
\* its status and value are recorded.
MultiLookupStep ==
    /\ mp.kind = "lookup" /\ mp.pc = "run"
    /\ LET spec == mp.specs[mp.idx + 1]
           res == op_exec(spec.op, mp.in_doc, spec.path)
           result == [status |-> subdoc_status(res.err),
                      value |-> IF response_has_value(spec.op)
                                THEN res.matchloc ELSE NoValue]
       IN  mp' = [mp EXCEPT !.results = Append(@, result),
                            !.idx = @ + 1,
                            !.pc = IF mp.idx + 1 = Len(mp.specs)
                                   THEN "respond" ELSE "run"]
    /\ UNCHANGED <<store, conn, interf, cmdBudget, extBudget, menu, vld, bk, io, tk, cfg>>

\* Multi-lookup: the response is the results in order under the overall
\* status.
MultiLookupRespond ==
    /\ mp.kind = "lookup" /\ mp.pc = "respond"
    /\ mp' = [mp EXCEPT !.pc = "done",
                        !.response = [status |-> overall_status(mp.results),
                                      results |-> mp.results,
                                      cas |-> mp.in_cas]]
    /\ UNCHANGED <<store, conn, interf, cmdBudget, extBudget, menu, vld, bk, io, tk, cfg>>

\* Multi-mutation: the next spec is applied to the document the earlier
\* ones have made.
MultiMutationStep ==
    /\ mp.kind = "mutation" /\ mp.pc = "run"
    /\ LET spec == mp.specs[mp.idx + 1]
           res == op_exec(spec.op, mp.doc, spec.path)
       IN  mp' = IF res.err # "SUCCESS"
                 THEN abort_on_failure(mp, subdoc_status(res.err))
                 ELSE [mp EXCEPT !.doc = res.newdoc,
                                 !.applied = Append(@, mp.idx + 1),
                                 !.idx = @ + 1,
                                 !.pc = IF mp.idx + 1 = Len(mp.specs)
                                        THEN "store" ELSE "run"]
    /\ UNCHANGED <<store, conn, interf, cmdBudget, extBudget, menu, vld, bk, io, tk, cfg>>

\* Multi-mutation: the final document is stored as one REPLACE under the
\* CAS of the fetched document; on a CAS conflict a command sent without CAS
\* starts again, as a single-path mutation does.
MultiStore ==
    /\ mp.kind = "mutation" /\ mp.pc = "store"
    /\ LET out_doc == [engine_allocate(0, 0, "JSON") EXCEPT
                          !.cas = mp.in_cas, !.value = Plain(mp.doc)]
           r == engine_store(out_doc, store)
       IN  /\ store' = r.store
           /\ mp' = CASE r.ret = "ENGINE_SUCCESS" ->
                          [mp EXCEPT !.pc = "done", !.stores = @ + 1,
                                     !.response = [status |-> "SUCCESS",
                                                   index |-> 0, cas |-> r.cas]]
                      [] ~mp.withcas /\ mp.attempts < MAXIMUM_ATTEMPTS ->
                          [mp EXCEPT !.pc = "fetch"]
                      [] OTHER ->
                          [mp EXCEPT !.pc = "done",
                                     !.response =
                                        [status |-> IF mp.withcas
                                                    THEN "KEY_EEXISTS"
                                                    ELSE "ETMPFAIL",
                                         index |-> 0, cas |-> 0]]
    /\ UNCHANGED <<conn, interf, cmdBudget, extBudget, menu, vld, bk, io, tk, cfg>>

NextMulti ==
    \/ MultiFetch
    \/ MultiLookupStep
    \/ MultiLookupRespond
    \/ MultiMutationStep
    \/ MultiStore
    \/ ExternalSet

SpecMulti == InitMulti /\ [][NextMulti]_vars

\* Everything but one subsystem at rest.
IdleServer ==
    /\ store = [cas |-> 1, datatype |-> "JSON", value |-> Plain({}),
                flags |-> 7, exptime |-> 3, nvalue |-> 1]
    /\ conn = [c \in Conns |-> IdleConn]
    /\ interf = [c \in Conns |-> 0]
    /\ cmdBudget = 0
    /\ extBudget = 0
    /\ menu = {}
    /\ vld = NoPacket
    /\ mp = NoMulti

Destroying(b, name) == b.del.pc # "idle" /\ b.del.name = name

\* A registry holding the given buckets, with no connection bound.
Registry(names) ==
    [buckets |-> [name \in names |-> {}],
     conn |-> [c \in Conns |-> [bucket |-> NoBucket, state |-> "idle",
                                wake |-> "none", left |-> "none"]],
     del |-> [pc |-> "idle", name |-> NoBucket],
     lock |-> "free",
     last |-> [op |-> "none", who |-> "admin", status |-> "SUCCESS"]]

InitBuckets ==
    /\ IdleServer
    /\ bk = Registry({})
    /\ io = NoIoctl
    /\ tk = NoTopKeys
    /\ cfg = NoConfig

Answer(op, who, status) == [op |-> op, who |-> who, status |-> status]

\* Create: the name is validated, a duplicate is refused, a new bucket starts
\* empty.
CreateBucket(name) ==
    /\ bk # NoBuckets
    /\ \/ ~validate_bucket_name(name)
       \/ bucket_exists(bk, name)
       \/ Cardinality(DOMAIN bk.buckets) < MaxBuckets
    /\ bk' = CASE ~validate_bucket_name(name) ->
                    [bk EXCEPT !.last = Answer("create", "admin", "EINVAL")]
                [] bucket_exists(bk, name) ->
                    [bk EXCEPT !.last = Answer("create", "admin", "KEY_EEXISTS")]
                [] OTHER ->
                    [bk EXCEPT !.buckets = [n \in DOMAIN @ \cup {name} |->
                                               IF n = name THEN {} ELSE @[n]],
                               !.last = Answer("create", "admin", "SUCCESS")]
    /\ UNCHANGED <<store, conn, interf, cmdBudget, extBudget, menu, vld, mp, io, tk, cfg>>

\* Select: the connection leaves its bucket, under the bucket's lock, and is
\* bound to the named one; a thread deleting the bucket left is notified.
SelectBucket(c, name) ==
    /\ bk # NoBuckets
    /\ bk.conn[c].state = "idle"
    /\ Destroying(bk, bk.conn[c].bucket) => bk.lock = "free"
    /\ bk' = IF bucket_exists(bk, name) /\ ~Destroying(bk, name)
             THEN [bk EXCEPT !.conn[c].bucket = name,
                             !.conn[c].wake = "none",
                             !.del.pc = IF @ = "waiting"
                                           /\ bk.conn[c].bucket = bk.del.name
                                        THEN "check" ELSE @,
                             !.last = Answer("select", c, "SUCCESS")]
             ELSE [bk EXCEPT !.last = Answer("select", c, "KEY_ENOENT")]
    /\ UNCHANGED <<store, conn, interf, cmdBudget, extBudget, menu, vld, mp, io, tk, cfg>>

\* A command of a connection goes to the engine of its bucket.
BucketCommand(c, op, key) ==
    /\ bk # NoBuckets
    /\ bk.conn[c].state = "idle"
    /\ bk.conn[c].bucket # NoBucket
    /\ LET engine == getBucketEngine(bk, c)
           r == engine_command(op, key, bk.buckets[engine])
       IN  bk' = [bk EXCEPT !.buckets[engine] = r.docs,
                            !.last = Answer(op, c, r.status)]
    /\ UNCHANGED <<store, conn, interf, cmdBudget, extBudget, menu, vld, mp, io, tk, cfg>>

\* A connection parks: it has read part of a request and waits for the rest
\* (conn_nread), or it streams and its send queue is full (conn_ship_log).
Park(c, state) ==
    /\ bk # NoBuckets
    /\ bk.conn[c].state = "idle"
    /\ bk.conn[c].bucket # NoBucket
    /\ bk' = [bk EXCEPT !.conn[c].state = state]
    /\ UNCHANGED <<store, conn, interf, cmdBudget, extBudget, menu, vld, mp, io, tk, cfg>>

\* The client of a parked connection sends bytes: the connection runs again.
ClientSend(c) ==
    /\ bk # NoBuckets
    /\ bk.conn[c].state \in {"nread", "ship_log"}
    /\ bk' = IF Destroying(bk, bk.conn[c].bucket)
             THEN [bk EXCEPT !.conn[c].wake = IF @ = "none" THEN "client" ELSE @]
             ELSE [bk EXCEPT !.conn[c].state = "idle"]
    /\ UNCHANGED <<store, conn, interf, cmdBudget, extBudget, menu, vld, mp, io, tk, cfg>>

\* Delete: an unknown name is refused; a bucket is marked as being deleted.
DeleteBucket(name) ==
    /\ bk # NoBuckets
    /\ bk.del.pc = "idle"
    /\ bk' = IF ~bucket_exists(bk, name)
             THEN [bk EXCEPT !.last = Answer("delete", "admin", "KEY_ENOENT")]
             ELSE [bk EXCEPT !.del = [pc |-> "check", name |-> name]]
    /\ UNCHANGED <<store, conn, interf, cmdBudget, extBudget, menu, vld, mp, io, tk, cfg>>

\* The deleting thread takes the bucket's lock to look at its connections.
DeleteLock ==
    /\ bk # NoBuckets
    /\ bk.del.pc = "check"
    /\ bk.lock = "free"
    /\ bk' = [bk EXCEPT !.lock = "deleter", !.del.pc = "locked"]
    /\ UNCHANGED <<store, conn, interf, cmdBudget, extBudget, menu, vld, mp, io, tk, cfg>>

\* With no connection left the bucket is removed; otherwise the thread signals
\* the connections of the bucket and waits for one to leave.
DeleteWait ==
    /\ bk # NoBuckets
    /\ bk.del.pc = "locked"
    /\ bk' = IF \A c \in Conns : bk.conn[c].bucket # bk.del.name
             THEN [bk EXCEPT !.buckets = [n \in DOMAIN @ \ {bk.del.name} |-> @[n]],
                             !.del = [pc |-> "idle", name |-> NoBucket],
                             !.lock = "free",
                             !.last = Answer("delete", "admin", "SUCCESS")]
             ELSE [bk EXCEPT !.conn = signal_connections(@, bk.del.name),
                             !.lock = unlock_for_wait(@),
                             !.del.pc = "waiting"]
    /\ UNCHANGED <<store, conn, interf, cmdBudget, extBudget, menu, vld, mp, io, tk, cfg>>

\* A woken connection of a bucket being deleted takes the bucket's lock,
\* leaves the bucket and closes; the deleting thread is notified.
Drain(c) ==
    /\ bk # NoBuckets
    /\ Destroying(bk, bk.conn[c].bucket)
    /\ bk.conn[c].wake # "none"
    /\ bk.lock = "free"
    /\ bk' = [bk EXCEPT !.conn[c] = [bucket |-> NoBucket, state |-> "closed",
                                     wake |-> @.wake, left |-> @.state],
                        !.del.pc = IF @ = "waiting" THEN "check" ELSE @]
    /\ UNCHANGED <<store, conn, interf, cmdBudget, extBudget, menu, vld, mp, io, tk, cfg>>

\* The names the clients of the registry run use.
ClientBucketNames == {[len |-> 1, last |-> "a"], [len |-> 2, last |-> "_"]}

NextBuckets ==
    \/ \E name \in ClientBucketNames : CreateBucket(name)
    \/ \E c \in Conns, name \in ClientBucketNames : SelectBucket(c, name)
    \/ \E c \in Conns, op \in {"add", "get"}, key \in BucketKeys :
          BucketCommand(c, op, key)
    \/ \E c \in Conns, state \in {"nread", "ship_log"} : Park(c, state)
    \/ \E c \in Conns : ClientSend(c)
    \/ \E name \in ClientBucketNames : DeleteBucket(name)
    \/ DeleteLock
    \/ DeleteWait
    \/ \E c \in Conns : Drain(c)

SpecBuckets == InitBuckets /\ [][NextBuckets]_vars

\* The server's own threads keep running: the deleting thread, and every
\* connection that has been woken. Nothing is assumed of the clients.
SpecBucketsFair ==
    /\ SpecBuckets
    /\ WF_vars(DeleteLock)
    /\ WF_vars(DeleteWait)
    /\ \A c \in Conns : WF_vars(Drain(c))

\* The administrator alone, creating and deleting buckets of every name.
NextBucketNames ==
    \/ \E name \in BucketNames : CreateBucket(name)
    \/ \E name \in BucketNames : DeleteBucket(name)
    \/ DeleteLock
    \/ DeleteWait

SpecBucketNames == InitBuckets /\ [][NextBucketNames]_vars

\* A server built with or without TCMalloc, before any ioctl.
InitIoctl ==
    /\ IdleServer
    /\ bk = NoBuckets
    /\ \E have_tcmalloc \in BOOLEAN :
          io = [have_tcmalloc |-> have_tcmalloc, calls |-> 0,
                released |-> 0, properties |-> 0, traces |-> 0,
                call |-> "none", key |-> <<>>,
                value |-> "unwritten", ret |-> "none"]
    /\ tk = NoTopKeys
    /\ cfg = NoConfig

IoctlGet(key, hook_ok) ==
    /\ io # NoIoctl
    /\ io.calls < MaxIoctls
    /\ LET r == ioctl_get_property(io.have_tcmalloc, key, hook_ok)
       IN  io' = [io EXCEPT !.calls = @ + 1, !.ret = r.ret,
                            !.call = "ioctl_get", !.key = key,
                            !.value = IF r.written THEN "written" ELSE "unwritten"]
    /\ UNCHANGED <<store, conn, interf, cmdBudget, extBudget, menu, vld, mp, bk, tk, cfg>>

IoctlSet(key, too_long, hook_ok) ==
    /\ io # NoIoctl
    /\ io.calls < MaxIoctls
    /\ LET r == ioctl_set_property(io.have_tcmalloc, key, too_long, hook_ok)
           n(did) == IF r.did = did THEN 1 ELSE 0
       IN  io' = [io EXCEPT !.calls = @ + 1, !.ret = r.ret,
                            !.call = "ioctl_set", !.key = key,
                            !.value = "unwritten",
                            !.released = @ + n("release_free_memory"),
                            !.properties = @ + n("set_allocator_property"),
                            !.traces = @ + n("apply_connection_trace_mask")]
    /\ UNCHANGED <<store, conn, interf, cmdBudget, extBudget, menu, vld, mp, bk, tk, cfg>>

NextIoctl ==
    \/ \E key \in IoctlKeys, hook_ok \in BOOLEAN : IoctlGet(key, hook_ok)
    \/ \E key \in IoctlKeys, too_long \in BOOLEAN, hook_ok \in BOOLEAN :
          IoctlSet(key, too_long, hook_ok)

SpecIoctl == InitIoctl /\ [][NextIoctl]_vars

\* Empty shards, idle threads.
InitTopKeys ==
    /\ IdleServer
    /\ bk = NoBuckets
    /\ io = NoIoctl
    /\ \E max_keys \in 1..MaxTopKeys :
       tk = [max_keys |-> max_keys,
             shards |-> [i \in 0..(NUM_SHARDS - 1) |->
                           [hash |-> <<>>, list |-> <<>>, mutex |-> "free"]],
             thr |-> [t \in Threads |-> [pc |-> "idle", key |-> "k16", count |-> 0]],
             applied |-> [k \in TopKeyNames |-> 0],
             updates |-> 0,
             clock |-> 0,
             last |-> [k \in TopKeyNames |-> 0]]
    /\ cfg = NoConfig

\* The process runs: no thread has failed an assertion.
TkRunning == tk # NoTopKeys /\ \A t \in Threads : tk.thr[t].pc # "abort"

\* TopKeys::updateKey: a thread picks the shard of the key.
TkUpdateKey(t, key) ==
    /\ TkRunning
    /\ tk.thr[t].pc = "idle"
    /\ tk.updates < MaxUpdates
    /\ tk' = [tk EXCEPT !.thr[t] = [pc |-> "lock", key |-> key, count |-> 0],
                        !.updates = @ + 1]
    /\ UNCHANGED <<store, conn, interf, cmdBudget, extBudget, menu, vld, mp, bk, io, cfg>>

\* Shard::updateKey: the lock_guard takes the shard's mutex.
TkLock(t) ==
    /\ TkRunning
    /\ tk.thr[t].pc = "lock"
    /\ mutex_free(tk.shards[getShard(tk.thr[t].key)])
    /\ tk' = [tk EXCEPT !.shards[getShard(tk.thr[t].key)].mutex = t,
                        !.thr[t].pc = "emplace"]
    /\ UNCHANGED <<store, conn, interf, cmdBudget, extBudget, menu, vld, mp, bk, io, cfg>>

\* Shard::updateKey: the key is inserted or found and becomes the most
\* recently used.  std::bad_alloc from hash.emplace changes nothing; from
\* list.push_front it leaves the new key in the hash (and the victim gone)
\* with the list one entry short; either way the update is given up.
\* list.back() of an empty list has no element to give: the cb_assert on
\* hash.erase ends the process.
TkEmplace(t, fault) ==
    /\ TkRunning
    /\ tk.thr[t].pc = "emplace"
    /\ LET key == tk.thr[t].key
           s == getShard(key)
           shard == tk.shards[s]
           is_new == key \notin DOMAIN shard.hash
           over == is_new /\ Cardinality(DOMAIN shard.hash) + 1 > tk.max_keys
       IN  tk' =
             CASE fault = "emplace" ->
                    [tk EXCEPT !.shards[s].mutex = "free",
                               !.thr[t].pc = "idle"]
               [] fault # "emplace" /\ over /\ shard.list = <<>> ->
                    [tk EXCEPT !.thr[t].pc = "abort"]
               [] fault = "push_front" /\ is_new
                    /\ ~(over /\ shard.list = <<>>) ->
                    [tk EXCEPT !.shards[s] =
                                  [shard_insert(@, key, tk.max_keys)
                                     EXCEPT !.mutex = "free"],
                               !.applied[key] = 0,
                               !.thr[t].pc = "idle"]
               [] OTHER ->
                    [tk EXCEPT !.shards[s] = shard_emplace(@, key, tk.max_keys),
                               !.applied[key] = IF is_new THEN 0 ELSE @,
                               !.clock = @ + 1,
                               !.last[key] = tk.clock + 1,
                               !.thr[t].pc = "read"]
    /\ UNCHANGED <<store, conn, interf, cmdBudget, extBudget, menu, vld, mp, bk, io, cfg>>

\* ti_access_count++: the count is read ...
TkRead(t) ==
    /\ TkRunning
    /\ tk.thr[t].pc = "read"
    /\ LET key == tk.thr[t].key
           hash == tk.shards[getShard(key)].hash
       IN  tk' = [tk EXCEPT !.thr[t].count = IF key \in DOMAIN hash
                                             THEN hash[key] ELSE 0,
                            !.thr[t].pc = "write"]
    /\ UNCHANGED <<store, conn, interf, cmdBudget, extBudget, menu, vld, mp, bk, io, cfg>>

\* ... and written back one higher; the update is applied and the lock_guard
\* gives the mutex back.
TkWrite(t) ==
    /\ TkRunning
    /\ tk.thr[t].pc = "write"
    /\ LET key == tk.thr[t].key
           s == getShard(key)
       IN  tk' = [tk EXCEPT !.shards[s].hash =
                                IF key \in DOMAIN @
                                THEN [@ EXCEPT ![key] = tk.thr[t].count + 1]
                                ELSE @,
                            !.shards[s].mutex = "free",
                            !.applied[key] = @ + 1,
                            !.thr[t].pc = "idle"]
    /\ UNCHANGED <<store, conn, interf, cmdBudget, extBudget, menu, vld, mp, bk, io, cfg>>

NextTopKeys ==
    \/ \E t \in Threads, key \in TopKeyNames : TkUpdateKey(t, key)
    \/ \E t \in Threads : TkLock(t)
    \/ \E t \in Threads, fault \in AllocFaults : TkEmplace(t, fault)
    \/ \E t \in Threads : TkRead(t)
    \/ \E t \in Threads : TkWrite(t)

SpecTopKeys == InitTopKeys /\ [][NextTopKeys]_vars

\* ------------------------------------------------- configuration reload
\* Bounds of the reload run: reloads made, interfaces configured.
MaxReloads == 2
MaxInterfaces == 2

\* struct interface, the fields the reload looks at.
BaseInterface ==
    [host |-> "*", port |-> 11210, ipv4 |-> TRUE, ipv6 |-> TRUE, maxconn |-> 10]

\* The interface and its one-field changes; port 0 is a dynamic port.
InterfaceChoices ==
    { BaseInterface,
      [BaseInterface EXCEPT !.host = "localhost"],
      [BaseInterface EXCEPT !.port = 11211],
      [BaseInterface EXCEPT !.port = 0],
      [BaseInterface EXCEPT !.ipv4 = FALSE],
      [BaseInterface EXCEPT !.ipv6 = FALSE],
      [BaseInterface EXCEPT !.maxconn = 20] }

InterfaceLists == UNION {[1..n -> InterfaceChoices] : n \in 1..MaxInterfaces}

\* struct settings as parse_config_file fills it from a file: a zeroed
\* structure, and for every key the file has, its value and its `has` flag.
ParsedSettings ==
    { [has |-> [threads |-> ht, interfaces |-> ifs # <<>>, verbose |-> hv],
       num_threads |-> nt, interfaces |-> ifs, verbose |-> v] :
         ht \in BOOLEAN, hv \in BOOLEAN, nt \in 0..2, v \in 0..1,
         ifs \in InterfaceLists \cup {<<>>} }

ConfigFiles ==
    {n \in ParsedSettings : /\ n.has.threads <=> n.num_threads # 0
                            /\ ~n.has.verbose => n.verbose = 0}

\* The handlers table: key, and whether the entry has a reconfiguration
\* handler.
handlers ==
    << [key |-> "threads", dyanamic_reconfig |-> FALSE],
       [key |-> "interfaces", dyanamic_reconfig |-> TRUE],
       [key |-> "verbosity", dyanamic_reconfig |-> TRUE] >>

\* dyna_validate_threads: the errors it adds (none when it returns true).
dyna_validate_threads(new, cur) ==
    IF ~new.has.threads \/ new.num_threads = cur.num_threads
    THEN {}
    ELSE {[key |-> "threads", idx |-> 0, what |-> "not dynamic"]}

\* dyna_validate_interfaces: host, port, ipv4 and ipv6 of every interface must
\* be what they are, unless the running or the new port is dynamic; the
\* number of interfaces must be what it is.
dyna_validate_interfaces(new, cur) ==
    IF ~new.has.interfaces
    THEN {}
    ELSE IF Len(new.interfaces) = Len(cur.interfaces)
    THEN UNION { LET cur_if == cur.interfaces[ii]
                     new_if == new.interfaces[ii]
                 IN  IF cur_if.port = 0 \/ new_if.port = 0
                     THEN {}
                     ELSE {[key |-> "interfaces", idx |-> ii, what |-> f] :
                             f \in {g \in {"host", "port", "ipv4", "ipv6"} :
                                      new_if[g] # cur_if[g]}}
                 : ii \in 1..Len(cur.interfaces) }
    ELSE {[key |-> "interfaces", idx |-> 0, what |-> "number"]}

\* dyna_validate_verbosity: verbosity is dynamic.
dyna_validate_verbosity(new, cur) == {}

dynamic_validate(key, new, cur) ==
    CASE key = "threads" -> dyna_validate_threads(new, cur)
      [] key = "interfaces" -> dyna_validate_interfaces(new, cur)
      [] key = "verbosity" -> dyna_validate_verbosity(new, cur)

\* dyna_reconfig_interfaces with dyna_reconfig_iface_maxconns: for every
\* running interface the new value is taken over unless the new port is
\* dynamic.  new_ifs is what new_settings->interfaces[ii] reads.
dyna_reconfig_interfaces(new_ifs, cur) ==
    [cur EXCEPT !.interfaces =
        [ii \in 1..Len(cur.interfaces) |->
            IF new_ifs[ii].port # 0
            THEN [cur.interfaces[ii] EXCEPT !.maxconn = new_ifs[ii].maxconn]
            ELSE cur.interfaces[ii]]]

\* dyna_reconfig_verbosity
dyna_reconfig_verbosity(new, cur) ==
    IF new.has.verbose /\ new.verbose # cur.verbose
    THEN [cur EXCEPT !.verbose = new.verbose]
    ELSE cur

\* A file without an interfaces key leaves new_settings->interfaces NULL, and
\* dyna_reconfig_interfaces indexes it all the same: the read of
\* interfaces[ii] is undefined.  It ends the process or yields any bytes.
InterfaceReads(new, cur) ==
    IF new.has.interfaces
    THEN {[fault |-> FALSE, ifs |-> new.interfaces]}
    ELSE {[fault |-> TRUE, ifs |-> <<>>]}
           \cup {[fault |-> FALSE, ifs |-> l] :
                   l \in [1..Len(cur.interfaces) -> InterfaceChoices]}

\* Variant of the validation loop of reload_config_file: each setting stands
\* for itself, and a failed validation stops only its own handler.
failed_keys_only(key, errors) == \E e \in errors : e.key = key

\* reload_config_file, the test before the reconfiguration handlers: one
\* failed validation stops them all.
reconfig_blocked(key, errors) == errors # {}

\* reload_config_file: parse, validate with every handler, and when all
\* validations passed run every reconfiguration handler in table order.  read
\* is what the interfaces handler gets from new_settings->interfaces.
reload_config_file(cur, new, parse_ok, read) ==
    IF ~parse_ok
    THEN [settings |-> cur, validated |-> <<>>, errors |-> {}, ran |-> <<>>,
          crashed |-> FALSE]
    ELSE LET validated == [ii \in 1..Len(handlers) |-> handlers[ii].key]
             errors == UNION {dynamic_validate(handlers[ii].key, new, cur) :
                                ii \in 1..Len(handlers)}
             run_ifs == ~reconfig_blocked("interfaces", errors)
             run_verb == ~reconfig_blocked("verbosity", errors)
             crashed == run_ifs /\ read.fault
             s1 == IF run_ifs /\ ~crashed
                   THEN dyna_reconfig_interfaces(read.ifs, cur) ELSE cur
             s2 == IF run_verb /\ ~crashed
                   THEN dyna_reconfig_verbosity(new, s1) ELSE s1
         IN  [settings |-> s2, validated |-> validated, errors |-> errors,
              ran |-> (IF run_ifs THEN <<"interfaces">> ELSE <<>>)
                        \o (IF run_verb /\ ~crashed THEN <<"verbosity">> ELSE <<>>),
              crashed |-> crashed]

\* The settings memcached starts with.
InitConfig ==
    /\ IdleServer
    /\ bk = NoBuckets
    /\ io = NoIoctl
    /\ tk = NoTopKeys
    /\ \E ifs \in {<<BaseInterface>>,
                   <<BaseInterface, [BaseInterface EXCEPT !.port = 0]>>} :
          cfg = [kind |-> "config",
                 settings |-> [num_threads |-> 1, interfaces |-> ifs, verbose |-> 0],
                 before |-> [num_threads |-> 1, interfaces |-> ifs, verbose |-> 0],
                 new |-> CHOOSE n \in ConfigFiles : ~n.has.threads /\ ~n.has.verbose
                                                     /\ ~n.has.interfaces,
                 parse_ok |-> FALSE, validated |-> <<>>, errors |-> {},
                 ran |-> <<>>, crashed |-> FALSE, reloads |-> 0]

\* The configuration file is reloaded.
ReloadConfig(new, parse_ok, read) ==
    /\ cfg # NoConfig
    /\ ~cfg.crashed
    /\ cfg.reloads < MaxReloads
    /\ read \in InterfaceReads(new, cfg.settings)
    /\ LET r == reload_config_file(cfg.settings, new, parse_ok, read) IN
       cfg' = [kind |-> "config", settings |-> r.settings,
               before |-> cfg.settings, new |-> new, parse_ok |-> parse_ok,
               validated |-> r.validated, errors |-> r.errors, ran |-> r.ran,
               crashed |-> r.crashed, reloads |-> cfg.reloads + 1]
    /\ UNCHANGED <<store, conn, interf, cmdBudget, extBudget, menu, vld, mp, bk, io, tk>>

NextConfig ==
    \E new \in ConfigFiles, parse_ok \in BOOLEAN :
       \E read \in InterfaceReads(new, cfg.settings) :
          ReloadConfig(new, parse_ok, read)

SpecConfig == InitConfig /\ [][NextConfig]_vars

\* ====================================================== the claims
LastResponse(k) == k.responses[Len(k.responses)]

Responded(k, status) ==
    k.pc = "mwrite" /\ k.responses # <<>> /\ LastResponse(k).status = status

\* The step is connection c's store, and the engine answered KEY_EEXISTS.
StoreConflict(c) ==
    conn[c].pc = "store" /\ conn'[c].h.conflicts = conn[c].h.conflicts + 1

\* No response to an auto-retry command carries KEY_EEXISTS.
NoConflictReported ==
    \A c \in Conns :
        (conn[c].cmd # NULL /\ conn[c].cmd.cas = 0) =>
            \A i \in 1..Len(conn[c].responses) :
                conn[c].responses[i].status # "KEY_EEXISTS"

\* C1 as stated: under auto-retry (CAS = 0) every KEY_EEXISTS of the store is
\* followed by no response, the release of the fetched item, the reset of the
\* command context and a new round starting at the engine's get.
C1_Always_Restarts ==
    [][\A c \in Conns :
          (StoreConflict(c) /\ conn[c].cmd.cas = 0) =>
              /\ conn'[c].responses = conn[c].responses
              /\ conn'[c].item = NULL
              /\ conn'[c].ctx = NULL
              /\ conn'[c].refs = [get |-> 0, alloc |-> 0]
              /\ conn'[c].pc = "fetch"]_vars

\* C1 amended: under auto-retry (CAS = 0) every KEY_EEXISTS of the store is
\* followed by the release of the fetched item and the reset of the command
\* context; unless it was the 100th round of this call of the executor, no
\* response is sent and a new round starts at the engine's get, and after the
\* 100th the one response is TMPFAIL.  KEY_EEXISTS is never sent.
C1_Restarts_Below_Bound ==
    /\ []NoConflictReported
    /\ [][\A c \in Conns :
            (StoreConflict(c) /\ conn[c].cmd.cas = 0) =>
                /\ conn'[c].item = NULL
                /\ conn'[c].ctx = NULL
                /\ conn'[c].refs = [get |-> 0, alloc |-> 0]
                /\ conn'[c].h.retries = conn[c].h.retries + 1
                /\ IF conn[c].attempts < MAXIMUM_ATTEMPTS
                   THEN /\ conn'[c].responses = conn[c].responses
                        /\ conn'[c].pc = "fetch"
                   ELSE /\ conn'[c].pc = "mwrite"
                        /\ conn'[c].responses =
                              Append(conn[c].responses,
                                     [status |-> "ETMPFAIL", cas |-> NoCas,
                                      value |-> NoValue])]_vars

\* A retry has happened: the connection is back at the head of the loop with
\* nothing held and nothing sent.
C1_Witness ==
    \E c \in Conns :
        /\ conn[c].pc = "fetch" /\ conn[c].cmd.cas = 0
        /\ conn[c].h.conflicts = 2 /\ conn[c].h.retries = 2
        /\ conn[c].item = NULL /\ conn[c].ctx = NULL /\ conn[c].responses = <<>>

\* C2: with a client CAS the store's KEY_EEXISTS is sent to the client as
\* KEY_EEXISTS at once, and the command never fetches twice, never completes
\* a second store and never goes back to the head of the loop.  (A call the
\* engine answers with EWOULDBLOCK is the same call when it is made again on
\* resumption; it is counted when it completes.)
C2_Conflict_Surfaced ==
    /\ [](\A c \in Conns :
            (conn[c].cmd # NULL /\ conn[c].cmd.cas # 0) =>
                /\ conn[c].h.gets <= 1
                /\ conn[c].h.stores <= 1
                /\ conn[c].h.retries = 0
                /\ conn[c].pc # "fetch"
                /\ ~conn[c].h.exhausted)
    /\ [][\A c \in Conns :
            (StoreConflict(c) /\ conn[c].cmd.cas # 0) =>
                /\ conn'[c].pc = "mwrite"
                /\ conn'[c].responses =
                      <<[status |-> "KEY_EEXISTS", cas |-> NoCas, value |-> NoValue]>>
                /\ conn'[c].h.gets = 1
                /\ conn'[c].h.stores = 1]_vars

\* A command with a client CAS whose store lost against another writer.
C2_Witness ==
    \E c \in Conns :
        /\ conn[c].cmd # NULL /\ conn[c].cmd.cas # 0
        /\ Responded(conn[c], "KEY_EEXISTS")
        /\ conn[c].h.conflicts = 1 /\ conn[c].h.stores = 1

\* C3: the TMPFAIL of exhaustion is sent only to a command with CAS = 0 and
\* only after exactly 100 rounds, each of which fetched the document and had
\* its store answered KEY_EEXISTS.
C3_Exactly_100_Attempts ==
    \A c \in Conns :
        conn[c].h.exhausted =>
            /\ conn[c].cmd.cas = 0
            /\ conn[c].h.gets = MAXIMUM_ATTEMPTS
            /\ conn[c].h.conflicts = MAXIMUM_ATTEMPTS

\* The step is connection c's call of the engine's store.
StoreStep(c) == conn[c].pc = "store" /\ conn'[c] # conn[c]

\* The step is connection c's store, and the engine took the new document.
StoreSuccess(c) == StoreStep(c) /\ store' # store

\* Connection c is inside a command that has not yet answered.
Running(c) == conn[c].pc \in {"execute", "fetch", "store", "blocked"}

\* C4: under auto-retry a command whose fetched version was overwritten k
\* times before its store has fetched at most k+1 times and has lost at most
\* k stores; it gives up only when k has reached 100; until it has answered it
\* can always take its next step; a store against the version it fetched is
\* never a conflict, and what it writes is the operation applied to the
\* document fetched in that round, answered with SUCCESS.
C4_Success_Within_k_Plus_One ==
    /\ [](\A c \in Conns :
            (conn[c].cmd # NULL /\ conn[c].cmd.cas = 0) =>
                /\ conn[c].h.conflicts <= interf[c]
                /\ conn[c].h.gets <= interf[c] + 1
                /\ conn[c].h.exhausted => interf[c] >= MAXIMUM_ATTEMPTS
                /\ (interf[c] < MAXIMUM_ATTEMPTS /\ Responded(conn[c], "ETMPFAIL"))
                      => conn[c].h.gets + conn[c].h.stores < 2 * (interf[c] + 1))
    /\ [](\A c \in Conns :
            Running(c) => ENABLED (Execute(c) \/ Retry(c) \/ Resume(c) \/ Store(c)))
    /\ [][\A c \in Conns :
            (StoreStep(c) /\ conn[c].cmd.cas = 0) =>
                /\ (conn[c].item.cas = store.cas) =>
                      /\ conn'[c].h.conflicts = conn[c].h.conflicts
                      /\ conn'[c].pc \in {"mwrite", "blocked", "closing"}
                /\ (conn[c].item.cas # store.cas /\ interf[c] < MAXIMUM_ATTEMPTS) =>
                      conn'[c].pc \in {"fetch", "blocked", "closing"}
                         \/ Responded(conn'[c], "ENOMEM")
                /\ (store' # store) =>
                      /\ store'.value =
                            Plain(op_exec(conn[c].cmd.op, conn[c].ctx.in_doc.buf,
                                          conn[c].cmd.path).newdoc)
                      /\ conn[c].ctx.in_doc.buf = snappy_uncompress(conn[c].item.value)
                      /\ conn'[c].pc = "closing"
                            \/ Responded(conn'[c], "SUCCESS")]_vars

\* One interfering write, and the command has succeeded on its second round.
C4_Witness ==
    \E c \in Conns :
        /\ conn[c].cmd # NULL /\ conn[c].cmd.cas = 0
        /\ interf[c] = 1
        /\ conn[c].h.gets = 2 /\ conn[c].h.stores = 2 /\ conn[c].h.conflicts = 1
        /\ Responded(conn[c], "SUCCESS")

\* The document as the engine holds it, expanded.
StoredDoc == snappy_uncompress(store.value)

\* C5: the item handed to the engine's store carries the CAS of the item the
\* input document was fetched from; a store is taken only against that very
\* version, and the document it leaves is the operation applied to the
\* document it replaces; while two commands with CAS = 0 that added different
\* paths have both answered SUCCESS, both paths are in the document.
C5_No_Lost_Update ==
    /\ [](\A c \in Conns :
            (conn[c].ctx # NULL /\ conn[c].ctx.out_doc # NULL) =>
                /\ conn[c].item # NULL
                /\ conn[c].ctx.out_doc.cas = conn[c].item.cas
                /\ conn[c].ctx.in_cas = conn[c].item.cas)
    /\ [](\A c, d \in Conns :
            ( /\ c # d
              /\ Responded(conn[c], "SUCCESS") /\ Responded(conn[d], "SUCCESS")
              /\ conn[c].cmd.op \in MutatorOps /\ conn[d].cmd.op \in MutatorOps
              /\ conn[c].cmd.cas = 0 /\ conn[d].cmd.cas = 0 ) =>
                {conn[c].cmd.path, conn[d].cmd.path} \subseteq StoredDoc)
    /\ [][\A c \in Conns :
            StoreSuccess(c) =>
                /\ conn[c].ctx.out_doc.cas = store.cas
                /\ store.datatype \in {"JSON", "COMPRESSED_JSON"}
                /\ store'.value.enc = "plain"
                /\ store'.value.json =
                      op_exec(conn[c].cmd.op, StoredDoc, conn[c].cmd.path).newdoc]_vars

\* Two connections raced with DICT_ADD on different paths, one of them lost
\* its first store and retried, and both have answered SUCCESS.
C5_Witness ==
    \E c, d \in Conns :
        /\ c # d
        /\ Responded(conn[c], "SUCCESS") /\ Responded(conn[d], "SUCCESS")
        /\ conn[c].cmd.op = "SUBDOC_DICT_ADD" /\ conn[d].cmd.op = "SUBDOC_DICT_ADD"
        /\ conn[c].cmd.cas = 0 /\ conn[d].cmd.cas = 0
        /\ conn[c].cmd.path # conn[d].cmd.path
        /\ conn[d].h.conflicts = 1
        /\ StoredDoc = {conn[c].cmd.path, conn[d].cmd.path}

\* C6: the CAS in the response to a successful mutation is the CAS the
\* engine's store gave the new item, and it differs from the CAS seen at the
\* fetch.
C6_Response_Carries_New_Cas ==
    [][\A c \in Conns :
          (StoreSuccess(c) /\ Responded(conn'[c], "SUCCESS")) =>
              /\ LastResponse(conn'[c]).cas = store'.cas
              /\ LastResponse(conn'[c]).cas # conn[c].ctx.in_cas
              /\ LastResponse(conn'[c]).cas # conn[c].item.cas
              /\ conn[c].ctx.in_cas = conn[c].item.cas]_vars

\* A mutation has answered SUCCESS with the CAS of the document now stored.
C6_Witness ==
    \E c \in Conns :
        /\ Responded(conn[c], "SUCCESS")
        /\ conn[c].cmd.op \in MutatorOps
        /\ conn[c].h.stores = 1
        /\ LastResponse(conn[c]).cas = store.cas
        /\ conn[c].item # NULL /\ LastResponse(conn[c]).cas # conn[c].item.cas

\* C7: every item the executor prepares for the store, and so every document
\* it has stored, has datatype JSON, whether the item it fetched was JSON or
\* COMPRESSED_JSON.
C7_Stored_Datatype_JSON ==
    /\ [](\A c \in Conns :
            (conn[c].ctx # NULL /\ conn[c].ctx.out_doc # NULL) =>
                conn[c].ctx.out_doc.datatype = "JSON")
    /\ [][\A c \in Conns :
            StoreSuccess(c) =>
                /\ conn[c].item.datatype \in {"JSON", "COMPRESSED_JSON"}
                /\ store'.datatype = "JSON"]_vars

\* A compressed document was fetched, mutated and stored as plain JSON.
C7_Witness ==
    \E c \in Conns :
        /\ Responded(conn[c], "SUCCESS")
        /\ conn[c].cmd.op \in MutatorOps
        /\ conn[c].item # NULL /\ conn[c].item.datatype = "COMPRESSED_JSON"
        /\ store.datatype = "JSON" /\ store.cas = LastResponse(conn[c]).cas

\* The step is one of connection c's own, inside a command.
CommandStep(c) == conn[c].cmd # NULL /\ conn'[c] # conn[c]

\* C8: no step of a GET or EXISTS command calls the engine's allocate or
\* store or prepares an output item; the stored document and its CAS are
\* what they were before the step; the CAS of a SUCCESS response is the CAS
\* of the item that was fetched.
C8_Lookup_Changes_Nothing ==
    [][\A c \in Conns :
          (CommandStep(c) /\ conn[c].cmd.op \in {"SUBDOC_GET", "SUBDOC_EXISTS"}) =>
              /\ store' = store
              /\ conn'[c].h.allocs = 0
              /\ conn'[c].h.stores = 0
              /\ conn'[c].refs.alloc = 0
              /\ conn'[c].pc # "store"
              /\ conn'[c].ctx # NULL => conn'[c].ctx.out_doc = NULL
              /\ Responded(conn'[c], "SUCCESS") =>
                    /\ conn'[c].item # NULL
                    /\ LastResponse(conn'[c]).cas = conn'[c].item.cas
                    /\ conn'[c].ctx.in_cas = conn'[c].item.cas]_vars

\* A GET has answered SUCCESS with the value and the CAS of the fetched item.
C8_Witness ==
    \E c \in Conns :
        /\ Responded(conn[c], "SUCCESS")
        /\ conn[c].cmd.op = "SUBDOC_GET"
        /\ LastResponse(conn[c]).value # NoValue
        /\ LastResponse(conn[c]).cas = conn[c].item.cas
        /\ store.cas = conn[c].item.cas
        /\ conn[c].h.gets = 1 /\ conn[c].h.allocs = 0 /\ conn[c].h.stores = 0

\* Items connection c has checked out of the engine and holds a pointer to.
HeldItems(k) ==
    [get |-> IF k.item # NULL THEN 1 ELSE 0,
     alloc |-> IF k.ctx # NULL /\ k.ctx.out_doc # NULL THEN 1 ELSE 0]

\* C9: the items a connection has checked out of the engine and not yet
\* released are exactly the ones it still points to (none is leaked, none is
\* released twice), and it has none at the head of a retry, between commands
\* and after teardown.
C9_Items_Released_Once ==
    \A c \in Conns :
        /\ conn[c].refs = HeldItems(conn[c])
        /\ conn[c].pc \in {"idle", "closed", "fetch", "execute"} =>
              conn[c].refs = [get |-> 0, alloc |-> 0]

\* A round that fetched and allocated has lost its store and given both items
\* back.
C9_Witness ==
    \E c \in Conns :
        /\ conn[c].pc = "fetch"
        /\ conn[c].h.gets = 1 /\ conn[c].h.allocs = 1 /\ conn[c].h.retries = 1
        /\ conn[c].refs = [get |-> 0, alloc |-> 0]

\* C10: a connection is blocked exactly when it is marked ewouldblock, and has
\* then sent nothing; it becomes blocked only in a call of the engine's get
\* (nothing fetched yet), allocate (the operation done, no output item yet) or
\* store (from the store); a step performs the get only when no item is held,
\* the operation only when no input document is recorded and the allocate
\* only when there is no output item; and the step that resumes a blocked
\* command leaves what the context already held as it was.
C10_Suspend_And_Resume ==
    /\ [](\A c \in Conns :
            /\ (conn[c].pc = "blocked") <=> conn[c].ewouldblock
            /\ conn[c].pc = "blocked" => conn[c].responses = <<>>)
    /\ [][\A c \in Conns :
            (conn'[c].pc = "blocked" /\ conn'[c] # conn[c]) =>
                /\ conn'[c].responses = conn[c].responses
                /\ conn'[c].h.blocks = conn[c].h.blocks + 1
                /\ \/ /\ conn[c].pc \in {"execute", "fetch", "blocked"}
                      /\ conn'[c].item = NULL /\ conn'[c].ctx = NULL
                   \/ /\ conn[c].pc \in {"execute", "fetch", "blocked"}
                      /\ conn'[c].item # NULL
                      /\ conn'[c].cmd.op \in MutatorOps
                      /\ conn'[c].ctx.in_doc # NULL
                      /\ conn'[c].ctx.out_doc = NULL
                   \/ /\ conn[c].pc = "store"
                      /\ conn'[c].ctx.out_doc # NULL
                      /\ conn'[c].ctx = conn[c].ctx
                      /\ conn'[c].item = conn[c].item]_vars
    /\ [][\A c \in Conns :
            CommandStep(c) =>
                /\ conn'[c].h.gets > conn[c].h.gets => conn[c].item = NULL
                /\ conn'[c].h.ops > conn[c].h.ops =>
                      (conn[c].ctx = NULL \/ conn[c].ctx.in_doc = NULL)
                /\ conn'[c].h.allocs > conn[c].h.allocs =>
                      (conn[c].ctx = NULL \/ conn[c].ctx.out_doc = NULL)]_vars
    /\ [][\A c \in Conns :
            (conn[c].pc = "blocked" /\ conn'[c] # conn[c]) =>
                /\ conn[c].item # NULL => conn'[c].item = conn[c].item
                /\ (conn[c].ctx # NULL /\ conn[c].ctx.in_doc # NULL) =>
                      /\ conn'[c].ctx.in_doc = conn[c].ctx.in_doc
                      /\ conn'[c].ctx.in_cas = conn[c].ctx.in_cas
                      /\ conn'[c].ctx.result = conn[c].ctx.result
                /\ (conn[c].ctx # NULL /\ conn[c].ctx.out_doc # NULL) =>
                      conn'[c].ctx.out_doc = conn[c].ctx.out_doc]_vars

\* A mutation that was suspended once is running again and stands before its
\* store, having fetched, operated and allocated once each.
C10_Witness ==
    \E c \in Conns :
        /\ conn[c].pc = "store"
        /\ conn[c].cmd.op \in MutatorOps
        /\ conn[c].h.blocks = 1 /\ ~conn[c].ewouldblock
        /\ conn[c].h.gets = 1 /\ conn[c].h.ops = 1 /\ conn[c].h.allocs = 1
        /\ conn[c].responses = <<>>

\* The command of connection k was refused with `status` in the round that
\* fetched the item it holds: one response without CAS or value, no input
\* document, result or output item in the context, and no operation,
\* allocate or store beyond those of the rounds that ended in a retry.
Refused(k, status) ==
    /\ k.pc = "mwrite"
    /\ Len(k.responses) = 1
    /\ k.responses[1].status = status
    /\ k.responses[1].value = NoValue
    /\ k.responses[1].cas = NoCas
    /\ k.ctx # NULL
    /\ k.ctx.in_doc = NULL /\ k.ctx.result = NULL /\ k.ctx.out_doc = NULL
    /\ k.h.ops = k.h.retries /\ k.h.allocs = k.h.retries /\ k.h.stores = k.h.retries

\* The client's CAS does not rule the fetched item out.
CasAdmits(k) == k.cmd.cas = 0 \/ k.cmd.cas = k.item.cas

KnownDatatypes == {"RAW", "JSON", "COMPRESSED", "COMPRESSED_JSON"}

RuledOut(k) ==
    /\ Refused(k, "KEY_EEXISTS")
    /\ k.h.inflated = 0
    /\ k.ctx.in_cas = 0

DocumentedStatus ==
    [e \in SubdocErrors |->
        CASE e = "PATH_ENOENT" -> "SUBDOC_PATH_ENOENT"
          [] e = "PATH_MISMATCH" -> "SUBDOC_PATH_MISMATCH"
          [] e = "DOC_ETOODEEP" -> "SUBDOC_DOC_E2DEEP"
          [] e = "PATH_EINVAL" -> "SUBDOC_PATH_EINVAL"
          [] e = "DOC_EEXISTS" -> "SUBDOC_PATH_EEXISTS"
          [] e = "PATH_E2BIG" -> "SUBDOC_PATH_E2BIG"
          [] e = "NUM_E2BIG" -> "SUBDOC_NUM_ERANGE"
          [] e = "DELTA_E2BIG" -> "SUBDOC_DELTA_ERANGE"
          [] e = "VALUE_CANTINSERT" -> "SUBDOC_VALUE_CANTINSERT"
          [] e = "VALUE_ETOODEEP" -> "SUBDOC_VALUE_ETOODEEP"
          [] OTHER -> "EINTERNAL"]

\* The error the JSON engine returns for the command on the item it fetched.
EngineError(k) == op_exec(k.cmd.op, k.item.value.json, k.cmd.path).err

\* C13: when the JSON engine returns an error for the fetched document, the
\* command ends with one response carrying the documented status of that
\* error; nothing is allocated or stored and, also with CAS 0, no new round
\* starts.  (A compressed document may fail to inflate first: E2BIG.)
C13_Engine_Error_Mapped ==
    \A c \in Conns :
        ( /\ conn[c].cmd # NULL /\ conn[c].item # NULL
          /\ conn[c].item.nvalue = 1 /\ CasAdmits(conn[c])
          /\ EngineError(conn[c]) # "SUCCESS" ) =>
            LET s == DocumentedStatus[EngineError(conn[c])] IN
            /\ conn[c].item.datatype = "JSON" => Refused(conn[c], s)
            /\ (conn[c].item.datatype = "COMPRESSED_JSON"
                  /\ snappy_ok(conn[c].item.value)) =>
                  \/ Refused(conn[c], s) /\ conn[c].h.inflated > 0
                  \/ Refused(conn[c], "E2BIG") /\ conn[c].h.inflated = 0

\* A mutation with CAS 0 whose value the engine cannot insert was answered
\* SUBDOC_VALUE_CANTINSERT and ended.
C13_Witness ==
    \E c \in Conns :
        /\ conn[c].cmd # NULL /\ conn[c].item # NULL
        /\ conn[c].cmd.op \in MutatorOps /\ conn[c].cmd.cas = 0
        /\ conn[c].item.datatype = "JSON" /\ conn[c].item.nvalue = 1
        /\ EngineError(conn[c]) = "VALUE_CANTINSERT"
        /\ Refused(conn[c], "SUBDOC_VALUE_CANTINSERT")

\* The engine calls a command has completed: one get, allocate and store in
\* each round that ended in a retry, and in the current round `g` gets, `a`
\* allocates and `s` stores.
CallsAre(k, g, a, s) ==
    /\ k.h.gets = k.h.retries + g
    /\ k.h.allocs = k.h.retries + a
    /\ k.h.stores = k.h.retries + s

\* C14: once engine get, allocate or store has answered DISCONNECT the
\* connection is closing, no response has been written, and no engine call
\* has followed the one that was answered DISCONNECT: a get that disconnected
\* left no item, an allocate left no new item and no store, and a store is the
\* last call made.
C14_Disconnect_Closes_Silently ==
    \A c \in Conns :
        conn[c].h.disconnects > 0 =>
            /\ conn[c].pc = "closing"
            /\ conn[c].h.disconnects = 1
            /\ conn[c].responses = <<>>
            /\ ~conn[c].ewouldblock
            /\ IF conn[c].item = NULL
               THEN CallsAre(conn[c], 0, 0, 0)
               ELSE IF conn[c].ctx.out_doc = NULL
               THEN CallsAre(conn[c], 1, 0, 0)
               ELSE CallsAre(conn[c], 1, 1, 1)

\* A store answered DISCONNECT in the round after a conflict: the connection
\* is closing with the new item still allocated.
C14_Witness ==
    \E c \in Conns :
        /\ conn[c].pc = "closing" /\ conn[c].h.disconnects = 1
        /\ conn[c].item # NULL /\ conn[c].ctx.out_doc # NULL
        /\ conn[c].h.retries = 1 /\ conn[c].h.stores = 2
        /\ conn[c].responses = <<>>

\* The validator has given its verdict on a single-path packet.
SingleDone == vld.kind = "single" /\ vld.done

\* C15: the single-path validator rejects a packet whose magic is not REQ,
\* whose key is empty, whose extras are not the 3 bytes of path length and
\* flags, whose datatype is not RAW, whose path is longer than 1024 bytes or
\* empty where the opcode's traits allow no empty path, or whose flags have a
\* bit outside the opcode's valid_flags.
C15_Malformed_Rejected ==
    ( /\ SingleDone
      /\ \/ vld.p.magic # "REQ"
         \/ vld.p.keylen = 0
         \/ vld.p.extlen # 3
         \/ vld.p.datatype # "RAW"
         \/ vld.p.pathlen > 1024
         \/ vld.p.pathlen = 0 /\ ~vld.traits.allow_empty_path
         \/ \E b \in vld.p.subdoc_flags : b \notin vld.traits.valid_flags )
    => vld.ret = -1

\* A packet whose only fault is a path of 1025 bytes was rejected.
C15_Witness ==
    /\ SingleDone /\ vld.ret = -1
    /\ vld.p.magic = "REQ" /\ vld.p.keylen = 1 /\ vld.p.extlen = 3
    /\ vld.p.datatype = "RAW" /\ vld.p.pathlen = 1025
    /\ vld.p.subdoc_flags = {}
    /\ vld.traits.request_has_value /\ vld.p.bodylen = 1 + 3 + 1025 + 1

\* The packet's body holds value bytes after extras, key and path.
ValuePresent(p) == p.bodylen > p.extlen + p.keylen + p.pathlen

\* C16: the single-path validator accepts a packet only if it has a value
\* exactly when the opcode's request_has_value trait is set.
C16_Value_Iff_Required ==
    (SingleDone /\ vld.ret = 0) =>
        (ValuePresent(vld.p) <=> vld.traits.request_has_value)

\* The validator has given its verdict on a multi-lookup packet.
MultiDone == vld.kind = "multi" /\ vld.done

MultiHeaderOk(p) ==
    p.magic = "REQ" /\ p.keylen > 0 /\ p.extlen = 0 /\ p.datatype = "RAW"

\* Offset in the body of the byte after the first n encoded specs.
EndOfSpec(p, n) == p.keylen + SpecsLenTo(p.specs, n)

\* The specs the declared body holds: the encoded ones that start within it
\* and, if the body goes on after the last of them, what follows.
BodySpecs(p) ==
    {p.specs[i] : i \in {j \in 1..Len(p.specs) : EndOfSpec(p, j - 1) < p.bodylen}}
    \cup (IF p.bodylen > EndOfSpec(p, Len(p.specs)) THEN {p.beyond} ELSE {})

IsLookup(spec) == spec.opcode \in {"SUBDOC_GET", "SUBDOC_EXISTS"}

\* A request as a client library encodes it: a key, lookups with paths of 1
\* to 1024 bytes and no flags, and the body length of exactly these.
WellFormedMulti(p) ==
    /\ MultiHeaderOk(p)
    /\ \A i \in 1..Len(p.specs) :
          /\ IsLookup(p.specs[i])
          /\ p.specs[i].pathlen \in 1..1024
          /\ p.specs[i].flags = {}
    /\ p.bodylen = EndOfSpec(p, Len(p.specs))

\* C17: the multi-lookup validator rejects a request whose body is the key
\* alone, accepts a well-formed request of 1 to 16 specs, and rejects a
\* request whose body holds 17 specs or more.
C17_One_To_Sixteen_Specs ==
    MultiDone =>
        /\ (Len(vld.p.specs) = 0 /\ vld.p.bodylen = vld.p.keylen) => vld.ret = -1
        /\ (WellFormedMulti(vld.p) /\ Len(vld.p.specs) \in 1..16) => vld.ret = 0
        /\ (Len(vld.p.specs) >= 17 /\ vld.p.bodylen >= EndOfSpec(vld.p, 17)) =>
              vld.ret = -1

\* A well-formed request of 16 specs was accepted.
C17_Witness ==
    /\ MultiDone /\ vld.ret = 0
    /\ WellFormedMulti(vld.p) /\ Len(vld.p.specs) = 16

\* C18: the multi-lookup validator accepts a request only if every spec in
\* its body has opcode SUBDOC_GET or SUBDOC_EXISTS.
C18_Only_Lookup_Opcodes ==
    (MultiDone /\ vld.ret = 0) => \A spec \in BodySpecs(vld.p) : IsLookup(spec)

\* A request of three specs, well formed but for SUBDOC_MULTI_MUTATION as the
\* opcode of the last, was rejected.
C18_Witness ==
    /\ MultiDone /\ vld.ret = -1
    /\ MultiHeaderOk(vld.p) /\ Len(vld.p.specs) = 3
    /\ vld.p.bodylen = EndOfSpec(vld.p, 3)
    /\ IsLookup(vld.p.specs[1]) /\ IsLookup(vld.p.specs[2])
    /\ vld.p.specs[3] = LookupSpec("SUBDOC_MULTI_MUTATION", {}, 3)

\* The spec the walk reads as its i-th: the encoded one, or what follows the
\* encoded ones.
ReadSpec(p, i) == IF i <= Len(p.specs) THEN p.specs[i] ELSE p.beyond

RECURSIVE WalkLen(_, _)
WalkLen(p, m) ==
    IF m = 0 THEN 0
    ELSE SpecHeaderLen + ReadSpec(p, m).pathlen + WalkLen(p, m - 1)

\* The declared body ends inside an encoded spec.
Truncated(p) ==
    \E i \in 1..Len(p.specs) :
        EndOfSpec(p, i - 1) < p.bodylen /\ p.bodylen < EndOfSpec(p, i)

\* C19: the multi-lookup validator accepts a request only if the key and
\* some 1 to 16 specs, header and path, take exactly the declared body
\* length; it rejects a body that ends inside a spec, one that goes on after
\* the last spec with bytes that are no spec, and one no longer than the key.
C19_Body_Length_Exact ==
    MultiDone =>
        /\ vld.ret = 0 =>
              \E m \in 1..16 : vld.p.keylen + WalkLen(vld.p, m) = vld.p.bodylen
        /\ Truncated(vld.p) => vld.ret = -1
        /\ ( /\ vld.p.bodylen > EndOfSpec(vld.p, Len(vld.p.specs))
             /\ \/ ~IsLookup(vld.p.beyond)
                \/ vld.p.beyond.pathlen \notin 1..1024
                \/ vld.p.beyond.flags # {} )
             => vld.ret = -1
        /\ vld.p.bodylen <= vld.p.keylen => vld.ret = -1

\* A request of two good specs whose declared body is one byte short was
\* rejected.
C19_Witness ==
    /\ MultiDone /\ vld.ret = -1
    /\ MultiHeaderOk(vld.p) /\ Len(vld.p.specs) = 2
    /\ \A i \in 1..2 : vld.p.specs[i] \in GoodSpecs
    /\ vld.p.bodylen = EndOfSpec(vld.p, 2) - 1

\* C20: the multi-lookup validator rejects a request in which a spec has a
\* path of 0 or of more than 1024 bytes, or any flag set (neither lookup
\* has a valid flag, MKDIR_P included); a path of 1024 bytes is accepted.
C20_Spec_Path_And_Flags ==
    MultiDone =>
        /\ ( \E spec \in BodySpecs(vld.p) :
                \/ spec.pathlen = 0
                \/ spec.pathlen > 1024
                \/ spec.flags # {} )
             => vld.ret = -1
        /\ ( /\ WellFormedMulti(vld.p) /\ Len(vld.p.specs) \in 1..16
             /\ \E i \in 1..Len(vld.p.specs) : vld.p.specs[i].pathlen = 1024 )
             => vld.ret = 0

\* A request of two specs, well formed but for MKDIR_P on its first spec, a
\* SUBDOC_EXISTS, was rejected.
C20_Witness ==
    /\ MultiDone /\ vld.ret = -1
    /\ MultiHeaderOk(vld.p) /\ Len(vld.p.specs) = 2
    /\ vld.p.bodylen = EndOfSpec(vld.p, 2)
    /\ vld.p.specs[1] = LookupSpec("SUBDOC_EXISTS", {"MKDIR_P"}, 3)
    /\ vld.p.specs[2] \in GoodSpecs

\* C21: the multi-lookup validator rejects a request whose magic is not REQ,
\* whose key is empty, whose extras are not empty, whose datatype is not RAW
\* or whose declared body is shorter than a spec header and a 1-byte path
\* (5 bytes).
C21_Static_Values_Rejected ==
    ( /\ MultiDone
      /\ \/ vld.p.magic # "REQ"
         \/ vld.p.keylen = 0
         \/ vld.p.extlen # 0
         \/ vld.p.datatype # "RAW"
         \/ vld.p.bodylen < 5 )
    => vld.ret = -1

\* On a little-endian host a request with a 1-byte key and a body of 4 bytes
\* declared, its header otherwise right, was rejected.
C21_Witness ==
    /\ MultiDone /\ vld.ret = -1
    /\ MultiHeaderOk(vld.p) /\ vld.p.little_endian
    /\ vld.p.keylen = 1 /\ vld.p.bodylen = 4

\* The status a lookup of the path in the document has.
LookupStatus(doc, path) ==
    CASE path \in doc -> "SUCCESS"
      [] path = "PATH_MISMATCH" -> "SUBDOC_PATH_MISMATCH"
      [] OTHER -> "SUBDOC_PATH_ENOENT"

MultiAnswered(kind) ==
    /\ mp.kind = kind /\ mp.pc = "done"
    /\ "results" \in DOMAIN mp.response

\* C22: a multi-lookup whose document could be fetched answers with one result
\* per spec, in request order, each the outcome of that spec on the one fetched
\* document whatever the earlier specs returned; its overall status is
\* SUBDOC_MULTI_PATH_FAILURE exactly when some result is not a success, and
\* SUCCESS otherwise.
C22_Every_Spec_Executed ==
    MultiAnswered("lookup") =>
        LET rs == mp.response.results
        IN  /\ Len(rs) = Len(mp.specs)
            /\ \A i \in 1..Len(mp.specs) :
                  /\ rs[i].status = LookupStatus(mp.in_doc, mp.specs[i].path)
                  /\ (rs[i].value # NoValue) <=>
                        /\ rs[i].status = "SUCCESS"
                        /\ mp.specs[i].op = "SUBDOC_GET"
            /\ mp.response.status \in {"SUCCESS", "SUBDOC_MULTI_PATH_FAILURE"}
            /\ (mp.response.status = "SUBDOC_MULTI_PATH_FAILURE") <=>
                  \E i \in 1..Len(rs) : rs[i].status # "SUCCESS"

C22_Witness ==
    /\ MultiAnswered("lookup")
    /\ Len(mp.specs) = 3
    /\ mp.response.results[1].status = "SUBDOC_PATH_ENOENT"
    /\ mp.response.results[2].status = "SUCCESS"
    /\ mp.response.results[2].value # NoValue
    /\ mp.response.results[3].status = "SUCCESS"
    /\ mp.response.status = "SUBDOC_MULTI_PATH_FAILURE"

\* The document the first n specs make of doc, and whether they all succeed.
RECURSIVE ApplyTo(_, _, _)
ApplyTo(doc, specs, n) ==
    IF n = 0 THEN [ok |-> TRUE, doc |-> doc]
    ELSE LET before == ApplyTo(doc, specs, n - 1)
             res == op_exec(specs[n].op, before.doc, specs[n].path)
         IN  IF before.ok /\ res.err = "SUCCESS"
             THEN [ok |-> TRUE, doc |-> res.newdoc]
             ELSE [ok |-> FALSE, doc |-> before.doc]

\* C23: a multi-mutation is all-or-nothing. The step on which a spec fails ends
\* the command: no later spec is applied, nothing is stored and the stored
\* document and its CAS stay as they were. The command changes the stored
\* document only once, when every spec has succeeded: by one replace, under the
\* CAS of the fetched document, with the document all the specs made of it.
C23_All_Or_Nothing ==
    [][ (mp.kind = "mutation" /\ mp' # mp) =>
          /\ ( /\ mp.pc = "run"
               /\ ~ApplyTo(mp.in_doc, mp.specs, mp.idx + 1).ok )
              => /\ mp'.pc = "done"
                 /\ mp'.response.status \notin {"SUCCESS"}
                 /\ mp'.response.index = mp.idx
                 /\ mp'.applied = mp.applied
                 /\ \A i \in 1..Len(mp.applied) : mp.applied[i] <= mp.idx
                 /\ mp'.stores = 0
                 /\ store' = store
          /\ store' # store
              => /\ mp.pc = "store" /\ mp'.pc = "done"
                 /\ mp.stores = 0 /\ mp'.stores = 1
                 /\ mp'.response.status = "SUCCESS"
                 /\ store.cas = mp.in_cas
                 /\ ApplyTo(mp.in_doc, mp.specs, Len(mp.specs)).ok
                 /\ store'.value =
                       Plain(ApplyTo(mp.in_doc, mp.specs, Len(mp.specs)).doc)
          /\ mp'.pc = "done" /\ mp'.response.status = "SUCCESS"
              => store' # store
      ]_vars

C23_Witness ==
    /\ mp.kind = "mutation" /\ mp.pc = "done"
    /\ Len(mp.specs) = 3
    /\ mp.response.status = "SUBDOC_PATH_EEXISTS"
    /\ mp.response.index = 1
    /\ mp.applied = <<1>>
    /\ mp.stores = 0
    /\ store.cas = mp.in_cas
    /\ store.value = Plain(mp.in_doc)

\* C24: creating a bucket is refused with invalid-arguments exactly when the
\* name is empty, longer than 100 bytes or holds a byte other than a letter, a
\* digit or one of "_-.%", and then the set of buckets is unchanged; any other
\* name that is not taken is accepted and becomes a bucket.
C24_Bucket_Name_Validated ==
    [][ \A name \in BucketNames :
          CreateBucket(name) =>
            LET good == /\ name.len \in 1..100
                        /\ name.last \in {"a", "Z", "7", "_", "-", ".", "%"}
            IN  /\ (bk'.last.status = "EINVAL") <=> ~good
                /\ ~good => bk'.buckets = bk.buckets
                /\ (good /\ name \notin DOMAIN bk.buckets)
                    => /\ bk'.last.status = "SUCCESS"
                       /\ DOMAIN bk'.buckets = DOMAIN bk.buckets \cup {name}
      ]_vars

C24_Witness ==
    /\ bk # NoBuckets
    /\ bk.last = Answer("create", "admin", "EINVAL")
    /\ DOMAIN bk.buckets = {[len |-> 100, last |-> "a"], [len |-> 2, last |-> "%"]}

\* C25: creating a bucket under a name that is taken answers ALREADY_EXISTS
\* (KEY_EEXISTS) and deleting a bucket that does not exist answers NOT_FOUND
\* (KEY_ENOENT); either leaves the buckets, their documents and the binding of
\* every connection as they were.
C25_Duplicate_And_Missing_Refused ==
    [][ \A name \in ClientBucketNames :
          /\ (CreateBucket(name) /\ name \in DOMAIN bk.buckets)
              => /\ bk'.last = Answer("create", "admin", "KEY_EEXISTS")
                 /\ bk'.buckets = bk.buckets
                 /\ bk'.conn = bk.conn
          /\ (DeleteBucket(name) /\ name \notin DOMAIN bk.buckets)
              => /\ bk'.last = Answer("delete", "admin", "KEY_ENOENT")
                 /\ bk'.buckets = bk.buckets
                 /\ bk'.conn = bk.conn
                 /\ bk'.del = bk.del
      ]_vars

C25_Witness ==
    /\ bk # NoBuckets
    /\ bk.last = Answer("create", "admin", "KEY_EEXISTS")
    /\ [len |-> 1, last |-> "a"] \in DOMAIN bk.buckets
    /\ bk.buckets[[len |-> 1, last |-> "a"]] = {"k"}
    /\ bk.conn["c1"].bucket = [len |-> 1, last |-> "a"]
    /\ bk.conn["c2"].state = "nread"

\* C28: buckets are isolated. A command of a connection is answered from the
\* documents of the bucket the connection selected and changes no other
\* bucket: an Add succeeds exactly when that bucket does not hold the key,
\* whatever the other buckets hold, and a Get finds exactly what it holds.
C28_Buckets_Isolated ==
    [][ \A c \in Conns, op \in {"add", "get"}, key \in BucketKeys :
          BucketCommand(c, op, key) =>
            LET mine == bk.conn[c].bucket
            IN  /\ \A b \in DOMAIN bk.buckets \ {mine} :
                      bk'.buckets[b] = bk.buckets[b]
                /\ op = "add" =>
                      /\ (bk'.last.status = "SUCCESS") <=> key \notin bk.buckets[mine]
                      /\ bk'.buckets[mine] = bk.buckets[mine] \cup {key}
                /\ op = "get" =>
                      /\ (bk'.last.status = "SUCCESS") <=> key \in bk.buckets[mine]
                      /\ bk'.buckets[mine] = bk.buckets[mine]
      ]_vars

C28_Witness ==
    /\ bk # NoBuckets
    /\ bk.last = Answer("add", "c1", "SUCCESS")
    /\ Cardinality(DOMAIN bk.buckets) = 2
    /\ \A b \in DOMAIN bk.buckets : bk.buckets[b] = {"k"}

\* C26: when a bucket is being deleted while a connection bound to it is parked
\* waiting for the rest of a partial request, the deletion completes, whether
\* or not the client ever sends another byte: the deletion signals the parked
\* connection, which leaves the bucket.
C26_Delete_Completes_With_Partial_Read ==
    \A c \in Conns :
        ( /\ bk.del.pc # "idle"
          /\ bk.conn[c].bucket = bk.del.name
          /\ bk.conn[c].state = "nread" )
        ~> ( /\ bk.del.pc = "idle"
             /\ bk.last = Answer("delete", "admin", "SUCCESS") )

C26_Witness ==
    /\ bk # NoBuckets
    /\ bk.last = Answer("delete", "admin", "SUCCESS")
    /\ bk.conn["c2"].state = "closed"
    /\ bk.conn["c2"].left = "nread"
    /\ bk.conn["c2"].wake = "signal"

\* C27: when a bucket is being deleted while a connection bound to it is parked
\* streaming with a full send queue, the deletion completes without any
\* further client input, and the deleting thread never holds the bucket's lock
\* while it waits for connections to leave.
C27_Delete_Completes_With_Full_Send_Queue ==
    /\ [](bk.del.pc = "waiting" => bk.lock = "free")
    /\ \A c \in Conns :
          ( /\ bk.del.pc # "idle"
            /\ bk.conn[c].bucket = bk.del.name
            /\ bk.conn[c].state = "ship_log" )
          ~> ( /\ bk.del.pc = "idle"
               /\ bk.last = Answer("delete", "admin", "SUCCESS") )

C27_Witness ==
    /\ bk # NoBuckets
    /\ bk.last = Answer("delete", "admin", "SUCCESS")
    /\ bk.conn["c2"].state = "closed"
    /\ bk.conn["c2"].left = "ship_log"
    /\ bk.conn["c2"].wake = "signal"

\* C29: ioctl_set with a key that is not release_free_memory, not the
\* allocator's decommit knob and does not start with "trace.connection."
\* returns EINVAL, releases no memory, sets no allocator property and changes
\* no trace mask; ioctl_get with any key but the exact name of the decommit
\* knob returns EINVAL and writes no value.
C29_Unknown_Key_EINVAL ==
    [][ io'.calls # io.calls =>
          LET key == io'.key
          IN  /\ ( /\ io'.call = "ioctl_set"
                   /\ key # <<"release_free_memor", "y">>
                   /\ key # <<"tcmalloc.aggressive_memory_decommi", "t">>
                   /\ ~( /\ Len(key) >= 2
                         /\ key[1] = "trace.connection" /\ key[2] = "." ) )
                  => /\ io'.ret = "ENGINE_EINVAL"
                     /\ io'.released = io.released
                     /\ io'.properties = io.properties
                     /\ io'.traces = io.traces
              /\ ( /\ io'.call = "ioctl_get"
                   /\ key # <<"tcmalloc.aggressive_memory_decommi", "t">> )
                  => /\ io'.ret = "ENGINE_EINVAL"
                     /\ io'.value = "unwritten"
      ]_vars

C29_Witness ==
    /\ io # NoIoctl
    /\ io.have_tcmalloc
    /\ io.calls = 2
    /\ io.call = "ioctl_set"
    /\ io.key = <<"release_free_memor", "t">>
    /\ io.ret = "ENGINE_EINVAL"
    /\ io.released = 1

InShard(t) == tk.thr[t].pc \in {"emplace", "read", "write", "abort"}

\* C30: the top keys live in eight maps, a key in the map hash(key) & 7. A
\* thread updating a key holds the mutex of that shard and no other, so two
\* updates of one shard never overlap; and whatever the interleaving, the
\* access count of every key a shard holds is the number of updates applied
\* to it since it was last inserted.
C30_Sharded_Counts_Exact ==
    tk # NoTopKeys =>
      /\ DOMAIN tk.shards = 0..7
      /\ \A s \in 0..7 : \A k \in DOMAIN tk.shards[s].hash :
            /\ s = CASE k = "k16" -> 0 [] k = "k8" -> 0 [] k = "k24" -> 0
                     [] k = "k9" -> 1
            /\ tk.shards[s].hash[k] = tk.applied[k]
      /\ \A t \in Threads, s \in 0..7 :
            (tk.shards[s].mutex = t) <=>
               (InShard(t) /\ s = getShard(tk.thr[t].key))
      /\ \A t, u \in Threads :
            (t # u /\ InShard(t) /\ InShard(u))
               => getShard(tk.thr[t].key) # getShard(tk.thr[u].key)

C30_Witness ==
    /\ tk # NoTopKeys
    /\ tk.updates = 3
    /\ DOMAIN tk.shards[0].hash = {"k8"}
    /\ tk.shards[0].hash["k8"] = 2
    /\ \A t \in Threads : tk.thr[t].pc = "idle"

\* C31: over the whole life of one auto-retry command, suspensions and
\* re-entries of the executor included, no more than 100 fetch-operate-store
\* attempts are made: the stores answered KEY_EEXISTS, each of which ends one
\* attempt, never number more than 100, and neither do the attempts begun.
C31_Attempts_Survive_Suspension ==
    \A c \in Conns :
        (conn[c].cmd # NULL /\ conn[c].cmd.cas = 0) =>
            /\ conn[c].h.conflicts <= MAXIMUM_ATTEMPTS
            /\ conn[c].h.stores <= MAXIMUM_ATTEMPTS

\* C32: the single-path validator rejects every packet whose declared body
\* is shorter than its key, extras and path together, whatever the opcode.
C32_Short_Body_Rejected ==
    ( /\ SingleDone
      /\ vld.p.bodylen < vld.p.keylen + vld.p.extlen + vld.p.pathlen )
    => vld.ret = -1

\* C33: the statistics are updated at most once per command and only by the
\* pass that succeeds: a command whose response is SUCCESS has counted one
\* cmd_set (mutator) or one get hit (lookup) and one top-keys update; a
\* command that is parked, that is retrying after KEY_EEXISTS, that waits for
\* its store, or that has answered with an error status has counted nothing.
C33_Stats_Once_On_Success ==
    \A c \in Conns :
        LET k == conn[c]
            counted == k.h.cmd_set + k.h.get_hits
        IN  /\ counted <= 1
            /\ k.h.topkeys = counted
            /\ k.pc \in {"execute", "fetch", "store", "blocked"} => counted = 0
            /\ (\E i \in 1..Len(k.responses) : k.responses[i].status # "SUCCESS")
                   => counted = 0
            /\ (k.pc = "mwrite" /\ k.responses # <<>>
                               /\ k.responses[1].status = "SUCCESS") =>
                   /\ k.h.cmd_set = (IF is_mutator(k.cmd.op) THEN 1 ELSE 0)
                   /\ k.h.get_hits = (IF is_mutator(k.cmd.op) THEN 0 ELSE 1)

\* A mutator that lost one store to a CAS conflict, was retried, and has now
\* answered SUCCESS with one cmd_set counted.
C33_Witness ==
    \E c \in Conns :
        /\ conn[c].pc = "mwrite"
        /\ conn[c].h.retries >= 1
        /\ conn[c].h.cmd_set = 1
        /\ conn[c].h.topkeys = 1
        /\ conn[c].responses[1].status = "SUCCESS"

\* C34: a command has exactly one terminal outcome: a connection that is
\* sending holds exactly one response, a connection that is closing holds
\* none, and before that nothing has been answered.  A SUCCESS response
\* carries the matched bytes exactly when the opcode's response has a value
\* (SUBDOC_GET) and an empty value otherwise.
C34_One_Outcome_And_Value ==
    \A c \in Conns :
        LET k == conn[c] IN
        /\ k.pc # "abort"
        /\ Len(k.responses) <= 1
        /\ k.pc = "mwrite" <=> Len(k.responses) = 1
        /\ k.pc \in {"closing", "closed", "idle", "execute", "fetch", "store",
                     "blocked"} => k.responses = <<>>
        /\ (k.pc = "mwrite" /\ k.responses[1].status = "SUCCESS") =>
              /\ k.ctx # NULL
              /\ k.responses[1].value =
                    (IF response_has_value(k.cmd.op) THEN k.ctx.result.matchloc
                     ELSE NoValue)

\* A SUBDOC_GET answered with its non-empty match, and on the other connection
\* a SUBDOC_EXISTS that matched the same way answered with no value.
C34_Witness ==
    \E c, d \in Conns :
        /\ conn[c].pc = "mwrite"
        /\ conn[c].cmd.op = "SUBDOC_GET"
        /\ conn[c].responses[1].status = "SUCCESS"
        /\ conn[c].responses[1].value # NoValue
        /\ conn[d].pc = "mwrite"
        /\ conn[d].cmd.op = "SUBDOC_EXISTS"
        /\ conn[d].responses[1].status = "SUCCESS"
        /\ conn[d].responses[1].value = NoValue
        /\ conn[d].ctx.result.matchloc # NoValue

\* C35: when a parked command is re-entered with a completion status other
\* than SUCCESS, the executor calls no engine operation again (not get, not
\* allocate, not store) and ends the command at once: the connection closes
\* for DISCONNECT and answers the mapped status otherwise.
C35_Failed_Completion_Ends_Command ==
    [][\A c \in Conns : \A status \in CompletionResults \ {"ENGINE_SUCCESS"} :
          ( /\ conn[c].pc = "blocked"
            /\ RunFrom(c, executor_entry(notify_io_complete(conn[c], status))) )
          => /\ conn'[c].h.gets = conn[c].h.gets
             /\ conn'[c].h.allocs = conn[c].h.allocs
             /\ IF status = "ENGINE_DISCONNECT"
                THEN conn'[c].pc = "closing"
                ELSE /\ conn'[c].pc = "mwrite"
                     /\ conn'[c].responses =
                           <<[status |-> engine_error_2_protocol_error(status),
                              cas |-> NoCas, value |-> NoValue]>>]_vars

\* C36: a successful mutation changes only the payload, the CAS and the
\* datatype of the document: the flags and the expiration of the item the
\* store puts in place are those of the item the command fetched.
C36_Flags_And_Expiry_Kept ==
    [][\A c \in Conns :
          ( /\ conn[c].pc = "store"
            /\ conn'[c].h.cmd_set = conn[c].h.cmd_set + 1
            /\ store' # store )
          => /\ store'.flags = conn[c].item.flags
             /\ store'.exptime = conn[c].item.exptime]_vars

\* C37: a connection holds a fetched item exactly when it holds a command
\* context.  Both are absent when the executor is entered with a new request
\* and at the head of its loop after a retry, so the engine's get always
\* succeeds into a connection without a context; both are present when the
\* store runs and when a SUCCESS response has been built.  No assertion of
\* the executor on the context fails.
C37_Item_Iff_Context ==
    \A c \in Conns :
        LET k == conn[c] IN
        /\ k.pc # "abort"
        /\ k.item # NULL <=> k.ctx # NULL
        /\ k.pc \in {"idle", "execute", "fetch", "closed"} => k.ctx = NULL
        /\ k.pc = "store" => k.ctx # NULL
        /\ (k.pc = "mwrite" /\ k.responses[1].status = "SUCCESS") => k.ctx # NULL

\* A command at its store with a new item and a new context after a retry.
C37_Witness ==
    \E c \in Conns :
        /\ conn[c].pc = "store"
        /\ conn[c].h.retries >= 1
        /\ conn[c].item # NULL
        /\ conn[c].ctx # NULL
        /\ conn[c].h.gets = 2

\* C38: whatever updateKey calls a shard with max_keys >= 1 has seen, its
\* recency list and its hash map hold exactly the same keys, the list names
\* no key twice, and the shard holds no more than max_keys keys.
C38_List_Matches_Hash ==
    tk # NoTopKeys =>
      \A s \in 0..(NUM_SHARDS - 1) :
         LET shard == tk.shards[s] IN
         /\ {shard.list[i] : i \in 1..Len(shard.list)} = DOMAIN shard.hash
         /\ \A i, j \in 1..Len(shard.list) :
               shard.list[i] = shard.list[j] => i = j
         /\ Cardinality(DOMAIN shard.hash) <= tk.max_keys

\* C39: a shard is a least-recently-used cache.  An updateKey that goes
\* through leaves its key at the head of the recency list; when the key is new
\* and the shard holds max_keys keys, exactly one key leaves the shard, it is
\* not the key inserted, and no key of the shard was updated longer ago; in
\* every other case no key leaves the shard.
C39_Least_Recently_Used_Evicted ==
    [][\A t \in Threads :
          ( /\ tk # NoTopKeys
            /\ tk.thr[t].pc = "emplace"
            /\ tk'.thr[t].pc = "read" )
          => LET key == tk.thr[t].key
                 old == tk.shards[getShard(key)]
                 new == tk'.shards[getShard(key)]
                 gone == DOMAIN old.hash \ DOMAIN new.hash
             IN  /\ new.list # <<>>
                 /\ new.list[1] = key
                 /\ key \in DOMAIN new.hash
                 /\ IF key \notin DOMAIN old.hash
                       /\ Cardinality(DOMAIN old.hash) >= tk.max_keys
                    THEN \E victim \in DOMAIN old.hash :
                            /\ gone = {victim}
                            /\ victim # key
                            /\ \A k \in DOMAIN old.hash :
                                  tk.last[victim] <= tk.last[k]
                    ELSE gone = {}]_vars

\* C40: a reload of the configuration is all or nothing.  Every handler's
\* validation is evaluated; when any of them fails (a new number of threads,
\* a new number of interfaces, a new host or port of an interface) no
\* reconfiguration handler runs and the running settings are what they were;
\* reconfiguration handlers run only when every validation passed.
C40_Reload_All_Or_Nothing ==
    (cfg # NoConfig /\ cfg.reloads > 0 /\ cfg.parse_ok) =>
       LET failed == \E ii \in 1..Len(handlers) :
                        dynamic_validate(handlers[ii].key, cfg.new, cfg.before) # {}
       IN  /\ cfg.validated = [ii \in 1..Len(handlers) |-> handlers[ii].key]
           /\ failed <=> cfg.errors # {}
           /\ failed => /\ cfg.ran = <<>>
                        /\ cfg.settings = cfg.before
                        /\ ~cfg.crashed
           /\ cfg.ran # <<>> => ~failed
           /\ cfg.settings # cfg.before => ~failed

\* A reload that asks for a louder verbosity, which is dynamic, and for
\* another number of threads and another host, which are not: both errors are
\* reported and the verbosity stays.
C40_Witness ==
    /\ cfg # NoConfig
    /\ cfg.reloads = 2
    /\ cfg.parse_ok
    /\ cfg.new.has.verbose /\ cfg.new.verbose # cfg.before.verbose
    /\ cfg.before.verbose = 1
    /\ \E e \in cfg.errors : e.key = "threads"
    /\ \E e \in cfg.errors : e.key = "interfaces" /\ e.what = "host"
    /\ cfg.ran = <<>>
    /\ cfg.settings = cfg.before
====
